---------------------------- MODULE Spec2Model ----------------------------
(***************************************************************************)
(* Segmentation & alignment reconciliation engine of the audio-edit        *)
(* dataset pipeline: SplitPointService, ScribeChunkerService,              *)
(* MfaChunkerService, MfaChunkValidatorService, MfaNormalizerService,      *)
(* AudioEditorService, PipelineOrchestrator and the batch driver main.     *)
(*                                                                         *)
(* Each service owns one record-valued variable whose fields carry the     *)
(* names of the arguments and locals of the Python code.  Every            *)
(* specification below drives one service (or one chain of services) from  *)
(* inputs drawn from bounded sets and leaves the other services idle.      *)
(* Python lists are 0-based: At(s, i) reads s[i].                          *)
(***************************************************************************)
EXTENDS Integers, Sequences, FiniteSets, TLC

VARIABLES seg, mfa, ed, norm, zc, cut, main, orch, val

vars == <<seg, mfa, ed, norm, zc, cut, main, orch, val>>

Idle == [pc |-> "idle"]

At(s, i) == s[i + 1]

Last(s) == s[Len(s)]

Min2(a, b) == IF a <= b THEN a ELSE b

Max2(a, b) == IF a >= b THEN a ELSE b

Range(s) == {s[i] : i \in 1..Len(s)}

(***************************************************************************)
(* Bounds of the segmentation model (times in milliseconds).               *)
(***************************************************************************)
MaxT == 6

MaxIntervals == 3

MaxD == 4

(***************************************************************************)
(* VAD tables: rows {start_ms, end_ms} with start_ms < end_ms, in time     *)
(* order and non-overlapping, as the speech detector writes them.          *)
(***************************************************************************)
RECURSIVE VadTables(_, _)
VadTables(lo, n) ==
    {<<>>} \cup
    (IF n = 0 THEN {}
     ELSE UNION {UNION {{<<[start_ms |-> s, end_ms |-> e]>> \o rest :
                            rest \in VadTables(e, n - 1)} :
                        e \in (s + 1)..MaxT} :
                 s \in lo..(MaxT - 1)})

\* The end-to-end scenario of the documentation: speech [(1000,3000),(4000,6000)]
\* in a 7000 ms recording, chunked with a 5000 ms budget.
ScenarioVad == <<[start_ms |-> 1000, end_ms |-> 3000], [start_ms |-> 4000, end_ms |-> 6000]>>

ScenarioInput == [vad |-> ScenarioVad, total |-> 7000, D |-> 5000]

SegInputs ==
    {[vad |-> v, total |-> t, D |-> d] :
        v \in VadTables(0, MaxIntervals), t \in 0..MaxT, d \in (-1)..MaxD}
    \cup {ScenarioInput}

(***************************************************************************)
(* SplitPointService.run                                                   *)
(***************************************************************************)
\* int(x / 2) for an integer x: Python's int() truncates toward zero.
TruncHalf(x) == IF x >= 0 THEN x \div 2 ELSE -((-x) \div 2)

\* Mutation: the silence start is not added back (the half-width alone).
MidPoint_HalfWidthOnly(silence_start, silence_end) ==
    TruncHalf(silence_end - silence_start)

\* Mutation: the midpoint is rounded up instead of truncated.
MidPoint_RoundUp(silence_start, silence_end) ==
    (2 * silence_start + (silence_end - silence_start) + 1) \div 2

\* int(silence_start + (silence_end - silence_start) / 2)
MidPoint(silence_start, silence_end) ==
    TruncHalf(2 * silence_start + (silence_end - silence_start))

SplitPointRun(vad_timestamps_df, total_duration_ms) ==
    IF vad_timestamps_df = <<>> THEN <<>>
    ELSE <<[split_point_ms |-> 0,
            silence_start_ms |-> 0,
            silence_end_ms |-> At(vad_timestamps_df, 0).start_ms]>>
         \o [k \in 1..(Len(vad_timestamps_df) - 1) |->
                [split_point_ms |-> MidPoint(At(vad_timestamps_df, k - 1).end_ms,
                                             At(vad_timestamps_df, k).start_ms),
                 silence_start_ms |-> At(vad_timestamps_df, k - 1).end_ms,
                 silence_end_ms |-> At(vad_timestamps_df, k).start_ms]]
         \o <<[split_point_ms |-> total_duration_ms,
               silence_start_ms |-> Last(vad_timestamps_df).end_ms,
               silence_end_ms |-> total_duration_ms]>>

(***************************************************************************)
(* ScribeChunkerService.run                                                *)
(***************************************************************************)
\* Mutation: the distance is measured from the previous split point instead
\* of from the chunk start.
RECURSIVE LookAhead_FromPrevious(_, _, _, _, _)
LookAhead_FromPrevious(split_points, start_time, max_duration_ms, i, end_index) ==
    IF i >= Len(split_points) THEN end_index
    ELSE IF At(split_points, i) - At(split_points, i - 1) <= max_duration_ms
         THEN LookAhead_FromPrevious(split_points, start_time, max_duration_ms, i + 1, i)
         ELSE end_index

\* Mutation: the scan stops at the first split point within the budget.
LookAhead_FirstFit(split_points, start_time, max_duration_ms, i, end_index) ==
    IF i >= Len(split_points) THEN end_index
    ELSE IF At(split_points, i) - start_time <= max_duration_ms THEN i
         ELSE end_index

\* The look-ahead for loop: the furthest split point within max_duration_ms
\* of start_time, scanning from index i and stopping at the first one too far.
RECURSIVE LookAhead(_, _, _, _, _)
LookAhead(split_points, start_time, max_duration_ms, i, end_index) ==
    IF i >= Len(split_points) THEN end_index
    ELSE IF At(split_points, i) - start_time <= max_duration_ms
         THEN LookAhead(split_points, start_time, max_duration_ms, i + 1, i)
         ELSE end_index

\* Mutation: no forced step when no split point is within the budget.
ChunkEndIndex_NoForcedStep(split_points, current_chunk_start_index, max_duration_ms) ==
    LookAhead(split_points, At(split_points, current_chunk_start_index),
              max_duration_ms, current_chunk_start_index + 1, current_chunk_start_index)

\* End index of the chunk starting at current_chunk_start_index, forcing
\* progress when no split point is within the budget.
ChunkEndIndex(split_points, current_chunk_start_index, max_duration_ms) ==
    LET end_index == LookAhead(split_points,
                               At(split_points, current_chunk_start_index),
                               max_duration_ms,
                               current_chunk_start_index + 1,
                               current_chunk_start_index)
    IN  IF end_index = current_chunk_start_index THEN end_index + 1 ELSE end_index

InitSeg ==
    /\ \E inp \in SegInputs :
          seg = [pc |-> "split_point",
                 vad_timestamps_df |-> inp.vad,
                 total_duration_ms |-> inp.total,
                 max_duration_ms |-> inp.D,
                 split_points_df |-> <<>>,
                 split_points |-> <<>>,
                 current_chunk_start_index |-> 0,
                 chunks |-> <<>>]
    /\ mfa = Idle /\ ed = Idle /\ norm = Idle /\ zc = Idle /\ cut = Idle
    /\ main = Idle /\ orch = Idle /\ val = Idle

\* self.services['split_point'].run(vad_df, len(audio))
SplitPoint ==
    /\ seg.pc = "split_point"
    /\ seg' = [seg EXCEPT !.pc = "scribe_chunker",
                          !.split_points_df =
                              SplitPointRun(seg.vad_timestamps_df, seg.total_duration_ms)]
    /\ UNCHANGED <<mfa, ed, norm, zc, cut, main, orch, val>>

\* ScribeChunkerService.run on an empty table: the early return.
ScribeChunkerEmpty ==
    /\ seg.pc = "scribe_chunker"
    /\ seg.split_points_df = <<>>
    /\ seg' = [seg EXCEPT !.pc = "done", !.chunks = <<>>]
    /\ UNCHANGED <<mfa, ed, norm, zc, cut, main, orch, val>>

\* ScribeChunkerService.run up to the while loop.
ScribeChunkerStart ==
    /\ seg.pc = "scribe_chunker"
    /\ seg.split_points_df # <<>>
    /\ seg' = [seg EXCEPT !.pc = "while",
                          !.split_points =
                              [k \in 1..Len(seg.split_points_df) |->
                                  seg.split_points_df[k].split_point_ms],
                          !.current_chunk_start_index = 0,
                          !.chunks = <<>>]
    /\ UNCHANGED <<mfa, ed, norm, zc, cut, main, orch, val>>

\* One iteration of the while loop.
ScribeChunkerIter ==
    /\ seg.pc = "while"
    /\ seg.current_chunk_start_index < Len(seg.split_points) - 1
    /\ LET end_index == ChunkEndIndex(seg.split_points,
                                      seg.current_chunk_start_index,
                                      seg.max_duration_ms)
       IN  seg' = [seg EXCEPT
                     !.chunks = Append(@,
                         [chunk_start_ms |-> At(seg.split_points, seg.current_chunk_start_index),
                          chunk_end_ms |-> At(seg.split_points, end_index)]),
                     !.current_chunk_start_index = end_index]
    /\ UNCHANGED <<mfa, ed, norm, zc, cut, main, orch, val>>

\* The while condition fails: return the chunks.
ScribeChunkerReturn ==
    /\ seg.pc = "while"
    /\ ~(seg.current_chunk_start_index < Len(seg.split_points) - 1)
    /\ seg' = [seg EXCEPT !.pc = "done"]
    /\ UNCHANGED <<mfa, ed, norm, zc, cut, main, orch, val>>

NextSeg ==
    \/ SplitPoint
    \/ ScribeChunkerEmpty
    \/ ScribeChunkerStart
    \/ ScribeChunkerIter
    \/ ScribeChunkerReturn

SpecSeg == InitSeg /\ [][NextSeg]_vars

\* The services run sequentially: a step that is possible is eventually taken.
SpecSegLive == SpecSeg /\ WF_vars(NextSeg)


(***************************************************************************)
(* MfaChunkerService.run                                                   *)
(*                                                                         *)
(* All times are kept in milliseconds: split_point_ms / 1000.0, the        *)
(* transcript's start/end (seconds rounded to 3 places) and                *)
(* total_duration_s = len(audio) / 1000.0 are all whole milliseconds, so   *)
(* every comparison of the code is a comparison of these integers.  The    *)
(* model's time grid is multiples of TickMs.                               *)
(***************************************************************************)
MaxTicks == 4

MaxTokens == 3

TickMs == 500

\* min_duration_ms: int = 1000
MinDurationMs == 1000

Grid == {k * TickMs : k \in 0..MaxTicks}

TokenTypes == {"word", "spacing", "audio_event"}

\* Transcript tokens {start, end, type} in time order, not overlapping
\* (consecutive tokens may share an end point), before ids are given.
RECURSIVE TokenRuns(_, _)
TokenRuns(lo, n) ==
    {<<>>} \cup
    (IF n = 0 THEN {}
     ELSE UNION {UNION {{<<[start |-> s, end |-> e, type |-> ty]>> \o rest :
                            ty \in TokenTypes, rest \in TokenRuns(e, n - 1)} :
                        e \in {g \in Grid : g > s}} :
                 s \in {g \in Grid : g >= lo}})

\* for i, word in enumerate(master_transcript['words']): word['id'] = i
WithIds(run) ==
    [k \in 1..Len(run) |->
        [id |-> k - 1, start |-> run[k].start, end |-> run[k].end, type |-> run[k].type]]

Transcripts == {WithIds(run) : run \in TokenRuns(0, MaxTokens)}

RECURSIVE AscendingList(_)
AscendingList(S) ==
    IF S = {} THEN <<>>
    ELSE LET m == CHOOSE x \in S : \A y \in S : x <= y
         IN  <<m>> \o AscendingList(S \ {m})

\* The split_point_ms column: any ascending list of grid times.
SplitPointColumns == {AscendingList(S) : S \in SUBSET Grid}

NoWord == [id |-> -1, start |-> -1, end |-> -1, type |-> "None"]

\* _find_word_at_time: the first token whose [start, end] holds time_s.
RECURSIVE FindWordAtTime(_, _, _)
FindWordAtTime(words, time_s, k) ==
    IF k > Len(words) THEN NoWord
    ELSE IF words[k].start <= time_s /\ time_s <= words[k].end THEN words[k]
         ELSE FindWordAtTime(words, time_s, k + 1)

\* list.sort(): insertion of x into an ascending list.
RECURSIVE InsertSorted(_, _)
InsertSorted(s, x) ==
    IF s = <<>> THEN <<x>>
    ELSE IF x < s[1] THEN <<x>> \o s
         ELSE <<s[1]>> \o InsertSorted(Tail(s), x)

RECURSIVE SortList(_)
SortList(s) == IF s = <<>> THEN <<>> ELSE InsertSorted(SortList(Tail(s)), s[1])

\* The eligible split points: the column, plus total_duration_s when it is
\* positive and missing, sorted.
EligibleSplitPoints(split_points, total_duration_s) ==
    SortList(IF 0 < total_duration_s /\ total_duration_s \notin Range(split_points)
             THEN Append(split_points, total_duration_s)
             ELSE split_points)

\* Mutation: any active token lets the chunk end, whatever its type.
EndsOnSilenceOrLast_AnyToken(words, split_point_s, total_duration_s) ==
    FindWordAtTime(words, split_point_s, 1) # NoWord \/ split_point_s >= total_duration_s

\* The test that lets a chunk end at split_point_s: a spacing token is active
\* there, or it is the last point.
EndsOnSilenceOrLast(words, split_point_s, total_duration_s) ==
    LET word_at_split == FindWordAtTime(words, split_point_s, 1)
        is_last_point == split_point_s >= total_duration_s
    IN  (word_at_split # NoWord /\ word_at_split.type = "spacing") \/ is_last_point

\* Mutation: the minimum duration also rejects the terminal point.
Skipped_NoTerminalExemption(split_point_s, current_start_s, total_duration_s) ==
    \/ split_point_s <= current_start_s
    \/ split_point_s - current_start_s < MinDurationMs

\* The two continue tests of the for loop.
Skipped(split_point_s, current_start_s, total_duration_s) ==
    \/ split_point_s <= current_start_s
    \/ (split_point_s - current_start_s < MinDurationMs /\ split_point_s # total_duration_s)

\* The for loop: the index of the first eligible point that closes a chunk,
\* 0 when there is none (found_chunk_end stays False).
RECURSIVE FirstChunkEnd(_, _, _, _, _)
FirstChunkEnd(eligible, words, current_start_s, total_duration_s, k) ==
    IF k > Len(eligible) THEN 0
    ELSE IF /\ ~Skipped(eligible[k], current_start_s, total_duration_s)
            /\ EndsOnSilenceOrLast(words, eligible[k], total_duration_s)
         THEN k
         ELSE FirstChunkEnd(eligible, words, current_start_s, total_duration_s, k + 1)

\* Mutation: a token starting exactly at the chunk's end is also taken.
ChunkScribeWords_ClosedEnd(words, current_start_s, current_end_s) ==
    SelectSeq(words, LAMBDA w : current_start_s <= w.start /\ w.start <= current_end_s)

\* [w for w in scribe_data["words"] if current_start_s <= w["start"] < current_end_s]
ChunkScribeWords(words, current_start_s, current_end_s) ==
    SelectSeq(words, LAMBDA w : current_start_s <= w.start /\ w.start < current_end_s)

InitMfa ==
    /\ \E sp \in SplitPointColumns, words \in Transcripts, total \in Grid :
          mfa = [pc |-> "start",
                 split_point_ms |-> sp,
                 words |-> words,
                 total_duration_s |-> total,
                 eligible_split_points_s |-> <<>>,
                 current_start_s |-> 0,
                 mfa_chunks |-> <<>>,
                 spans |-> <<>>]
    /\ seg = Idle /\ ed = Idle /\ norm = Idle /\ zc = Idle /\ cut = Idle
    /\ main = Idle /\ orch = Idle /\ val = Idle

\* MfaChunkerService.run up to the while loop.
MfaChunkerStart ==
    /\ mfa.pc = "start"
    /\ mfa' = [mfa EXCEPT !.pc = "while",
                          !.eligible_split_points_s =
                              EligibleSplitPoints(mfa.split_point_ms, mfa.total_duration_s),
                          !.current_start_s = 0,
                          !.mfa_chunks = <<>>]
    /\ UNCHANGED <<seg, ed, norm, zc, cut, main, orch, val>>

\* Mutation: a candidate chunk without words is kept.
Discarded_Never(transcript_parts) == FALSE

\* if not transcript_parts:
Discarded(transcript_parts) == transcript_parts = <<>>

\* One iteration of the while loop that finds a chunk end.  The field spans
\* is the history of the spans closed so far, accepted or discarded.
MfaChunkerIter ==
    /\ mfa.pc = "while"
    /\ mfa.current_start_s < mfa.total_duration_s
    /\ LET k == FirstChunkEnd(mfa.eligible_split_points_s, mfa.words,
                              mfa.current_start_s, mfa.total_duration_s, 1)
       IN  /\ k # 0
           /\ LET current_end_s == mfa.eligible_split_points_s[k]
                  chunk_scribe_words ==
                      ChunkScribeWords(mfa.words, mfa.current_start_s, current_end_s)
                  transcript_parts ==
                      SelectSeq(chunk_scribe_words, LAMBDA w : w.type = "word")
              IN  IF Discarded(transcript_parts)
                  THEN mfa' = [mfa EXCEPT
                          !.current_start_s = current_end_s,
                          !.spans = Append(@, [start_s |-> mfa.current_start_s,
                                               end_s |-> current_end_s,
                                               accepted |-> FALSE])]
                  ELSE mfa' = [mfa EXCEPT
                          !.mfa_chunks = Append(@,
                              [id |-> Len(mfa.mfa_chunks),
                               start_s |-> mfa.current_start_s,
                               end_s |-> current_end_s,
                               transcript |-> [i \in 1..Len(transcript_parts) |->
                                                  transcript_parts[i].id],
                               scribe_words |-> chunk_scribe_words,
                               contains_audio_event |->
                                   \E i \in 1..Len(chunk_scribe_words) :
                                       chunk_scribe_words[i].type = "audio_event"]),
                          !.current_start_s = current_end_s,
                          !.spans = Append(@, [start_s |-> mfa.current_start_s,
                                               end_s |-> current_end_s,
                                               accepted |-> TRUE])]
    /\ UNCHANGED <<seg, ed, norm, zc, cut, main, orch, val>>

\* The loop ends: the while condition fails, or no point closed a chunk.
MfaChunkerReturn ==
    /\ mfa.pc = "while"
    /\ \/ ~(mfa.current_start_s < mfa.total_duration_s)
       \/ FirstChunkEnd(mfa.eligible_split_points_s, mfa.words,
                        mfa.current_start_s, mfa.total_duration_s, 1) = 0
    /\ mfa' = [mfa EXCEPT !.pc = "done"]
    /\ UNCHANGED <<seg, ed, norm, zc, cut, main, orch, val>>

NextMfa == MfaChunkerStart \/ MfaChunkerIter \/ MfaChunkerReturn

SpecMfa == InitMfa /\ [][NextMfa]_vars

(***************************************************************************)
(* _edit_distance_leq (mfa_normalizer_service).  A Python str is modelled  *)
(* as the sequence of its characters.                                      *)
(***************************************************************************)
MaxLen == 3

MaxK == 3

Alphabet == {"a", "b"}

Cat == <<"c", "a", "t">>

Cats == <<"c", "a", "t", "s">>

Dog == <<"d", "o", "g">>

Strings == (UNION {[1..m -> Alphabet] : m \in 0..MaxLen}) \cup {Cat, Cats, Dog}

Abs(x) == IF x >= 0 THEN x ELSE -x

RECURSIVE MinOf(_)
MinOf(row) == IF Len(row) = 1 THEN row[1] ELSE Min2(row[1], MinOf(Tail(row)))

\* The inner for loop: curr_row[j] for j = 1..len(a), given curr_row[0..j-1].
RECURSIVE FillRow(_, _, _, _, _)
FillRow(curr_row, prev_row, a, char_b, j) ==
    IF j > Len(a) THEN curr_row
    ELSE LET cost == IF At(a, j - 1) = char_b THEN 0 ELSE 1
         IN  FillRow(Append(curr_row,
                            Min2(Min2(At(prev_row, j) + 1, At(curr_row, j - 1) + 1),
                                 At(prev_row, j - 1) + cost)),
                     prev_row, a, char_b, j + 1)

\* Mutation: the row test exits when the row minimum reaches max_dist.
RowBeyond_AtThreshold(curr_row, max_dist) == MinOf(curr_row) >= max_dist

\* if min(curr_row) > max_dist: return False
RowBeyond(curr_row, max_dist) == MinOf(curr_row) > max_dist

\* The outer for loop from row i on, with len(a) <= len(b).
RECURSIVE SweepRows(_, _, _, _, _)
SweepRows(prev_row, a, b, i, max_dist) ==
    IF i > Len(b) THEN At(prev_row, Len(a)) <= max_dist
    ELSE LET curr_row == FillRow(<<i>>, prev_row, a, At(b, i - 1), 1)
         IN  IF RowBeyond(curr_row, max_dist) THEN FALSE
             ELSE SweepRows(curr_row, a, b, i + 1, max_dist)

\* Mutation: the length-difference test is off by one.
LengthsTooFar_OffByOne(a, b, max_dist) == Abs(Len(a) - Len(b)) >= max_dist

\* if abs(len(a) - len(b)) > max_dist: return False
LengthsTooFar(a, b, max_dist) == Abs(Len(a) - Len(b)) > max_dist

EditDistanceLeq(a, b, max_dist) ==
    IF LengthsTooFar(a, b, max_dist) THEN FALSE
    ELSE LET short == IF Len(a) > Len(b) THEN b ELSE a
             long == IF Len(a) > Len(b) THEN a ELSE b
         IN  SweepRows([k \in 1..(Len(short) + 1) |-> k - 1], short, long, 1, max_dist)

InitEd ==
    /\ \E a \in Strings, b \in Strings, k \in 0..MaxK :
          ed = [pc |-> "call", a |-> a, b |-> b, max_dist |-> k, result |-> FALSE]
    /\ seg = Idle /\ mfa = Idle /\ norm = Idle /\ zc = Idle /\ cut = Idle
    /\ main = Idle /\ orch = Idle /\ val = Idle

\* _edit_distance_leq(a, b, max_dist)
EditDistanceCall ==
    /\ ed.pc = "call"
    /\ ed' = [ed EXCEPT !.pc = "done",
                        !.result = EditDistanceLeq(ed.a, ed.b, ed.max_dist)]
    /\ UNCHANGED <<seg, mfa, norm, zc, cut, main, orch, val>>

NextEd == EditDistanceCall

SpecEd == InitEd /\ [][NextEd]_vars

(***************************************************************************)
(* normalize_text_for_mfa (utils/mfa_text_normalizer).                     *)
(***************************************************************************)
LowerLetters ==
    <<"a", "b", "c", "d", "e", "f", "g", "h", "i", "j", "k", "l", "m",
      "n", "o", "p", "q", "r", "s", "t", "u", "v", "w", "x", "y", "z">>

UpperLetters ==
    <<"A", "B", "C", "D", "E", "F", "G", "H", "I", "J", "K", "L", "M",
      "N", "O", "P", "Q", "R", "S", "T", "U", "V", "W", "X", "Y", "Z">>

Digits == {"0", "1", "2", "3", "4", "5", "6", "7", "8", "9"}

Whitespace == {" ", "\t", "\n"}

IndexOf(letters, c) == CHOOSE i \in 1..Len(letters) : letters[i] = c

UpperChar(c) == IF c \in Range(LowerLetters) THEN UpperLetters[IndexOf(LowerLetters, c)] ELSE c

LowerChar(c) == IF c \in Range(UpperLetters) THEN LowerLetters[IndexOf(UpperLetters, c)] ELSE c

\* str.upper() and str.lower()
Upper(text) == [i \in 1..Len(text) |-> UpperChar(text[i])]

Lower(text) == [i \in 1..Len(text) |-> LowerChar(text[i])]

\* The text after the first occurrence of c (c occurs in text).
RECURSIVE AfterFirst(_, _)
AfterFirst(text, c) == IF text[1] = c THEN Tail(text) ELSE AfterFirst(Tail(text), c)

\* re.sub(r'\[[^\]]*\]|\([^)]*\)', '', text)
RECURSIVE RemoveParenthetical(_)
RemoveParenthetical(text) ==
    IF text = <<>> THEN <<>>
    ELSE IF text[1] = "[" /\ "]" \in Range(Tail(text))
         THEN RemoveParenthetical(AfterFirst(Tail(text), "]"))
    ELSE IF text[1] = "(" /\ ")" \in Range(Tail(text))
         THEN RemoveParenthetical(AfterFirst(Tail(text), ")"))
    ELSE <<text[1]>> \o RemoveParenthetical(Tail(text))

\* re.sub(r"[^A-Z0-9'\s]", '', text)
KeepMfaChars(text) ==
    SelectSeq(text, LAMBDA c : c \in Range(UpperLetters) \cup Digits \cup {"'"} \cup Whitespace)

\* re.sub(r'\s+', ' ', text): every run of whitespace becomes one space.
RECURSIVE CollapseWhitespace(_)
CollapseWhitespace(text) ==
    IF text = <<>> THEN <<>>
    ELSE IF text[1] \in Whitespace
         THEN IF Len(text) > 1 /\ text[2] \in Whitespace
              THEN CollapseWhitespace(Tail(text))
              ELSE <<" ">> \o CollapseWhitespace(Tail(text))
    ELSE <<text[1]>> \o CollapseWhitespace(Tail(text))

\* str.strip()
RECURSIVE Strip(_)
Strip(text) ==
    IF text = <<>> THEN <<>>
    ELSE IF text[1] \in Whitespace THEN Strip(Tail(text))
    ELSE IF Last(text) \in Whitespace THEN Strip(SubSeq(text, 1, Len(text) - 1))
    ELSE text

NormalizeTextForMfa(text) ==
    Strip(CollapseWhitespace(KeepMfaChars(Upper(RemoveParenthetical(text)))))

(***************************************************************************)
(* MfaNormalizerService.  Times are in units of 10 microseconds            *)
(* (0.00001 s), one decimal place finer than the 4 places kept by round.   *)
(***************************************************************************)
MaxWords == 2

MaxMarks == 2

Hello == <<"H", "E", "L", "L", "O">>

World == <<"W", "O", "R", "L", "D">>

Helo == <<"H", "E", "L", "O">>

HelloLower == <<"h", "e", "l", "l", "o">>

Ellipsis == <<".", ".", ".">>

\* The transcript tokens a chunk can hold: words and a spacing token.
TokenChoices ==
    {[text |-> t, type |-> "word"] : t \in {Hello, World, Ellipsis}}
    \cup {[text |-> <<" ">>, type |-> "spacing"]}

\* The marks a word-tier interval can carry: words, a short pause, silence.
MarkChoices == {Helo, World, HelloLower, <<"S", "P">>, <<>>}

SeqsUpTo(S, n) == UNION {[1..m -> S] : m \in 0..n}

\* The diagnostics the chunker and the validator left on a chunk.
ChunkFlagChoices ==
    {[contains_audio_event |-> FALSE, contains_oov |-> FALSE, oov_words |-> <<>>],
     [contains_audio_event |-> TRUE, contains_oov |-> TRUE, oov_words |-> <<"zyx">>]}

\* Start of chunk k on the global timeline: 1.5 s per chunk.
ChunkStart(k) == k * 150000

\* A chunk as MfaChunkerService and MfaChunkValidatorService leave it: the
\* tokens run[from..to] with their global ids, and the chunk's diagnostics.
ChunkOf(chunk_id, run, from, to, flags) ==
    [id |-> chunk_id, start_s |-> ChunkStart(chunk_id),
     scribe_words |-> [k \in 1..(to - from + 1) |->
                          [id |-> from + k - 2,
                           text |-> run[from + k - 1].text,
                           type |-> run[from + k - 1].type]],
     contains_audio_event |-> flags.contains_audio_event,
     contains_oov |-> flags.contains_oov,
     oov_words |-> flags.oov_words]

\* The chunk inventory: chunk 0 holds up to MaxWords tokens of the global
\* transcript; chunk 1 holds the one word that follows them and carries the
\* other diagnostics, so the two chunks never have equal annotations.
ChunkInventories ==
    {<<ChunkOf(0, run, 1, Len(run), f0),
       ChunkOf(1, Append(run, [text |-> World, type |-> "word"]),
               Len(run) + 1, Len(run) + 1,
               CHOOSE f1 \in ChunkFlagChoices : f1 # f0)>> :
        run \in SeqsUpTo(TokenChoices, MaxWords), f0 \in ChunkFlagChoices}

\* The most word-tier intervals the TextGrid of a chunk carries in the model.
MaxIntervalsOf(chunk_id) == IF chunk_id = 0 THEN MaxMarks ELSE 1

\* The ids of the TextGrid files in the output directory (at most two
\* files), in the order sorted() gives them; id 2 belongs to no chunk.
TgFileLists == {AscendingList(S) : S \in (SUBSET {0, 1, 2}) \ {{0, 1, 2}}}

\* Local times of the k-th word-tier interval (0.25003 s each).
IntervalMin(k) == (k - 1) * 25003

IntervalMax(k) == k * 25003

IsSilenceMarkText(mark) == mark = <<>> \/ Lower(mark) \in {<<"s", "p">>, <<"s", "p", "n">>, <<"s", "i", "l">>}

\* A parsed TextGrid: the word tier carries the given marks; the phone tier,
\* when there is one, splits every word interval into two phones and labels
\* a silence interval with an empty mark.
TextGridOf(marks, has_phones) ==
    [parse_ok |-> TRUE,
     word_tier |-> [k \in 1..Len(marks) |->
                      [minTime |-> IntervalMin(k), maxTime |-> IntervalMax(k), mark |-> marks[k]]],
     phone_tier |->
        IF has_phones
        THEN [j \in 1..(2 * Len(marks)) |->
                LET k == (j + 1) \div 2
                    mid == IntervalMin(k) + 12500
                IN  [minTime |-> IF j % 2 = 1 THEN IntervalMin(k) ELSE mid,
                     maxTime |-> IF j % 2 = 1 THEN mid ELSE IntervalMax(k),
                     mark |-> IF IsSilenceMarkText(marks[k]) THEN ""
                              ELSE IF j % 2 = 1 THEN "AH0" ELSE "T"]]
        ELSE <<>>]

\* A file textgrid.TextGrid.fromFile cannot read.
UnreadableTextGrid == [parse_ok |-> FALSE, word_tier |-> <<>>, phone_tier |-> <<>>]

\* round(x, 4) of a non-negative time (no input lies on a rounding tie).
Round4(x) == ((x + 5) \div 10) * 10

\* not interval.mark or interval.mark.lower() in ("sp", "spn", "sil")
IsSilenceMark(interval) == IsSilenceMarkText(interval.mark)

\* Mutation: the '...' placeholder is kept among the words to pair.
MfaInputWords_KeepPlaceholder(original_words) ==
    SelectSeq(original_words, LAMBDA w : w.type = "word")

\* mfa_input_words
MfaInputWords(original_words) ==
    SelectSeq(original_words, LAMBDA w : w.type = "word" /\ w.text # Ellipsis)

\* The phonemes of a word interval: the marked phones nested in it.
PhonemesOf(phone_tier, interval, offset_s) ==
    LET nested == SelectSeq(phone_tier,
                            LAMBDA ph : /\ ph.minTime >= interval.minTime
                                        /\ ph.maxTime <= interval.maxTime
                                        /\ ph.mark # "")
    IN  [j \in 1..Len(nested) |->
            [text |-> nested[j].mark,
             start |-> Round4(nested[j].minTime + offset_s),
             end |-> Round4(nested[j].maxTime + offset_s)]]

\* The walk over the word tier from interval k on.  acc holds original_idx,
\* mismatch_found, mismatched_pairs and aligned_words.
RECURSIVE WalkWordTier(_, _, _, _, _, _)
WalkWordTier(word_tier, phone_tier, mfa_input_words, offset_s, k, acc) ==
    IF k > Len(word_tier) THEN acc
    ELSE LET interval == word_tier[k]
         IN  IF IsSilenceMark(interval)
             THEN WalkWordTier(word_tier, phone_tier, mfa_input_words, offset_s, k + 1, acc)
             ELSE IF acc.original_idx >= Len(mfa_input_words) THEN acc
             ELSE LET orig_word == At(mfa_input_words, acc.original_idx)
                      matches == EditDistanceLeq(NormalizeTextForMfa(orig_word.text),
                                                 NormalizeTextForMfa(interval.mark), 2)
                      word_data == [id |-> orig_word.id,
                                    word |-> orig_word.text,
                                    mfa_word |-> interval.mark,
                                    start |-> Round4(interval.minTime + offset_s),
                                    end |-> Round4(interval.maxTime + offset_s),
                                    phonemes |-> PhonemesOf(phone_tier, interval, offset_s)]
                  IN  WalkWordTier(word_tier, phone_tier, mfa_input_words, offset_s, k + 1,
                          [original_idx |-> acc.original_idx + 1,
                           mismatch_found |-> acc.mismatch_found \/ ~matches,
                           mismatched_pairs |->
                               IF matches THEN acc.mismatched_pairs
                               ELSE Append(acc.mismatched_pairs,
                                           <<orig_word.text, interval.mark>>),
                           aligned_words |-> Append(acc.aligned_words, word_data)])

\* Mutation: the OOV findings of the chunk are not copied (the defaults are used).
ChunkDiag_OovDefaults(chunk_info, mismatch_found, mismatched_pairs) ==
    [id |-> chunk_info.id,
     contains_audio_event |-> chunk_info.contains_audio_event,
     contains_oov_words |-> FALSE,
     contains_mismatched_words |-> mismatch_found,
     oov_words |-> <<>>,
     mismatched_pairs |-> mismatched_pairs]

\* Mutation: the mismatching pairs are flagged but not recorded.
ChunkDiag_FlagOnly(chunk_info, mismatch_found, mismatched_pairs) ==
    [id |-> chunk_info.id,
     contains_audio_event |-> chunk_info.contains_audio_event,
     contains_oov_words |-> chunk_info.contains_oov,
     contains_mismatched_words |-> mismatch_found,
     oov_words |-> chunk_info.oov_words,
     mismatched_pairs |-> <<>>]

\* chunk_diag
ChunkDiag(chunk_info, mismatch_found, mismatched_pairs) ==
    [id |-> chunk_info.id,
     contains_audio_event |-> chunk_info.contains_audio_event,
     contains_oov_words |-> chunk_info.contains_oov,
     contains_mismatched_words |-> mismatch_found,
     oov_words |-> chunk_info.oov_words,
     mismatched_pairs |-> mismatched_pairs]

\* for w in aligned_words: w["chunk_info"] = chunk_diag
WithChunkInfo(w, chunk_diag) ==
    [id |-> w.id, word |-> w.word, mfa_word |-> w.mfa_word, start |-> w.start,
     end |-> w.end, phonemes |-> w.phonemes, chunk_info |-> chunk_diag]

\* _parse_textgrid: a file that cannot be read is logged and gives no words;
\* a missing or empty word tier gives no words.
ParseTextgrid(tg, offset_s, original_words, chunk_info) ==
    IF ~tg.parse_ok THEN <<>>
    ELSE IF tg.word_tier = <<>> THEN <<>>
    ELSE LET walk == WalkWordTier(tg.word_tier, tg.phone_tier,
                                  MfaInputWords(original_words), offset_s, 1,
                                  [original_idx |-> 0, mismatch_found |-> FALSE,
                                   mismatched_pairs |-> <<>>, aligned_words |-> <<>>])
             chunk_diag == ChunkDiag(chunk_info, walk.mismatch_found, walk.mismatched_pairs)
         IN  [k \in 1..Len(walk.aligned_words) |->
                 WithChunkInfo(walk.aligned_words[k], chunk_diag)]

\* chunk_map.get(chunk_id)
ChunkOfId(mfa_chunks, chunk_id) ==
    IF \E k \in 1..Len(mfa_chunks) : mfa_chunks[k].id = chunk_id
    THEN {mfa_chunks[CHOOSE k \in 1..Len(mfa_chunks) :
                        /\ mfa_chunks[k].id = chunk_id
                        /\ \A j \in (k + 1)..Len(mfa_chunks) : mfa_chunks[j].id # chunk_id]}
    ELSE {}

\* int(...) raising ValueError, as a value no chunk id takes.
ValueError == -1

\* int(p.stem.split("_")[-1]) applied to the last "_"-separated part of a stem.
IntOfStemTail(tail) ==
    CASE tail = "0" -> 0
      [] tail = "1" -> 1
      [] tail = "2" -> 2
      [] OTHER -> ValueError

\* The last part of the stem of mfa_chunk_<id>.TextGrid.
StemTailOf(chunk_id) == CHOOSE tail \in {"0", "1", "2"} : IntOfStemTail(tail) = chunk_id

\* What glob("*.TextGrid") finds: the files of some chunks, and possibly a
\* file whose stem does not end in a number (stem tail "output").
DirListings ==
    UNION {{{StemTailOf(chunk_id) : chunk_id \in Range(files)} \cup other :
                other \in {{}, {"output"}}} :
           files \in TgFileLists}

InitNorm ==
    /\ \E chunks \in ChunkInventories, listing \in DirListings, has_phones \in BOOLEAN :
          norm = [pc |-> "setup",
                  mfa_chunks |-> chunks,
                  dir_listing |-> listing,
                  tg_files |-> <<>>,
                  has_phones |-> has_phones,
                  file_index |-> 0,
                  textgrids |-> <<>>,
                  all_words |-> <<>>]
    /\ seg = Idle /\ mfa = Idle /\ ed = Idle /\ zc = Idle /\ cut = Idle
    /\ main = Idle /\ orch = Idle /\ val = Idle

\* all_words = []; chunk_map = {...}; tg_files = sorted(glob, key=int(stem
\* tail)).  The key is evaluated for every file, outside any try block: a
\* stem that is not a number makes run raise ValueError.
NormalizerSetup ==
    /\ norm.pc = "setup"
    /\ IF \E tail \in norm.dir_listing : IntOfStemTail(tail) = ValueError
       THEN norm' = [norm EXCEPT !.pc = "raised"]
       ELSE norm' = [norm EXCEPT
                       !.pc = "for",
                       !.tg_files = AscendingList({IntOfStemTail(tail) :
                                                      tail \in norm.dir_listing})]
    /\ UNCHANGED <<seg, mfa, ed, zc, cut, main, orch, val>>

\* One iteration of the for loop over tg_files whose id is in chunk_map.  The
\* file's content is read here: unreadable, or a TextGrid with a word tier.
NormalizerFile ==
    /\ norm.pc = "for"
    /\ norm.file_index < Len(norm.tg_files)
    /\ LET chunk_id == At(norm.tg_files, norm.file_index)
       IN  /\ ChunkOfId(norm.mfa_chunks, chunk_id) # {}
           /\ \E chunk_info \in ChunkOfId(norm.mfa_chunks, chunk_id) :
              \E tg \in {UnreadableTextGrid} \cup
                        {TextGridOf(marks, norm.has_phones) :
                            marks \in SeqsUpTo(MarkChoices, MaxIntervalsOf(chunk_id))} :
                 norm' = [norm EXCEPT
                            !.file_index = @ + 1,
                            !.textgrids = Append(@, tg),
                            !.all_words = @ \o ParseTextgrid(tg, chunk_info.start_s,
                                                             chunk_info.scribe_words, chunk_info)]
    /\ UNCHANGED <<seg, mfa, ed, zc, cut, main, orch, val>>

\* An iteration for a file whose id is in no chunk: continue.
NormalizerUnknownFile ==
    /\ norm.pc = "for"
    /\ norm.file_index < Len(norm.tg_files)
    /\ ChunkOfId(norm.mfa_chunks, At(norm.tg_files, norm.file_index)) = {}
    /\ norm' = [norm EXCEPT !.file_index = @ + 1,
                            !.textgrids = Append(@, UnreadableTextGrid)]
    /\ UNCHANGED <<seg, mfa, ed, zc, cut, main, orch, val>>

\* The loop is over: return all_words.
NormalizerReturn ==
    /\ norm.pc = "for"
    /\ norm.file_index = Len(norm.tg_files)
    /\ norm' = [norm EXCEPT !.pc = "done"]
    /\ UNCHANGED <<seg, mfa, ed, zc, cut, main, orch, val>>

NextNorm == NormalizerSetup \/ NormalizerFile \/ NormalizerUnknownFile \/ NormalizerReturn

SpecNorm == InitNorm /\ [][NextNorm]_vars

(***************************************************************************)
(* AudioEditorService._find_outward_zero_crossing.  signal is the list of  *)
(* samples; sample_index and the result are 0-based indices.               *)
(***************************************************************************)
MaxSamples == 4

SampleValues == {-2, -1, 0, 1, 2}

Signals == UNION {[1..n -> SampleValues] : n \in 1..MaxSamples}

\* np.sign
Sign(x) == IF x > 0 THEN 1 ELSE IF x < 0 THEN -1 ELSE 0

\* Mutation: an exhausted forward search returns len(signal).
RECURSIVE ScanForward_EdgePastEnd(_, _, _)
ScanForward_EdgePastEnd(signal, start_sign, i) ==
    IF i >= Len(signal) THEN Len(signal)
    ELSE IF Sign(At(signal, i)) # start_sign THEN i
    ELSE ScanForward_EdgePastEnd(signal, start_sign, i + 1)

\* The forward search: range(sample_index + 1, len(signal)), from i on.
RECURSIVE ScanForward(_, _, _)
ScanForward(signal, start_sign, i) ==
    IF i >= Len(signal) THEN Len(signal) - 1
    ELSE IF Sign(At(signal, i)) # start_sign THEN i
    ELSE ScanForward(signal, start_sign, i + 1)

\* Mutation: the backward search returns the crossing index itself.
RECURSIVE ScanBackward_CrossingIndex(_, _, _)
ScanBackward_CrossingIndex(signal, start_sign, i) ==
    IF i < 0 THEN 0
    ELSE IF Sign(At(signal, i)) # start_sign THEN i
    ELSE ScanBackward_CrossingIndex(signal, start_sign, i - 1)

\* The backward search: range(sample_index - 1, -1, -1), from i on.
RECURSIVE ScanBackward(_, _, _)
ScanBackward(signal, start_sign, i) ==
    IF i < 0 THEN 0
    ELSE IF Sign(At(signal, i)) # start_sign THEN i + 1
    ELSE ScanBackward(signal, start_sign, i - 1)

FindOutwardZeroCrossing(signal, sample_index, direction) ==
    IF ~(0 <= sample_index /\ sample_index < Len(signal))
    THEN Max2(0, Min2(Len(signal) - 1, sample_index))
    ELSE LET start_sign == Sign(At(signal, sample_index))
         IN  IF start_sign = 0 THEN sample_index
             ELSE IF direction = "forward"
                  THEN ScanForward(signal, start_sign, sample_index + 1)
                  ELSE ScanBackward(signal, start_sign, sample_index - 1)

InitZc ==
    /\ \E signal \in Signals, direction \in {"forward", "backward"} :
       \E sample_index \in (-1)..Len(signal) :
          zc = [pc |-> "call", signal |-> signal, sample_index |-> sample_index,
                direction |-> direction, result |-> -1]
    /\ seg = Idle /\ mfa = Idle /\ ed = Idle /\ norm = Idle /\ cut = Idle
    /\ main = Idle /\ orch = Idle /\ val = Idle

\* self._find_outward_zero_crossing(y_full, sample_index, direction)
FindOutwardZeroCrossingCall ==
    /\ zc.pc = "call"
    /\ zc' = [zc EXCEPT !.pc = "done",
                        !.result = FindOutwardZeroCrossing(zc.signal, zc.sample_index,
                                                           zc.direction)]
    /\ UNCHANGED <<seg, mfa, ed, norm, cut, main, orch, val>>

NextZc == FindOutwardZeroCrossingCall

SpecZc == InitZc /\ [][NextZc]_vars

(***************************************************************************)
(* AudioEditorService._get_cut_boundaries.  Times are in milliseconds on a *)
(* grid of 20 ms, so that every midpoint and every invaded boundary is     *)
(* a whole number; an invasion factor is kept in tenths (7 is 0.7).        *)
(***************************************************************************)
MaxCutWords == 3

MaxCutTicks == 5

\* Multiples of 20 ms: halves and tenths of every duration are whole.
CutGrid == {20 * k : k \in 0..MaxCutTicks}

\* Invasion factors in tenths: 0 (natural cut), 0.7 and 1.0.
InvasionChoices == {0, 7, 10}

\* Word spans {start, end} with start < end, in time order, not overlapping.
RECURSIVE WordSpans(_, _)
WordSpans(lo, n) ==
    {<<>>} \cup
    (IF n = 0 THEN {}
     ELSE UNION {UNION {{<<[start |-> s, end |-> e]>> \o rest :
                            rest \in WordSpans(e, n - 1)} :
                        e \in {g \in CutGrid : g > s}} :
                 s \in {g \in CutGrid : g >= lo}})

\* An aligned word: its phonemes, when it has any, split it in two halves.
AlignedWord(word_id, span, has_phonemes) ==
    [id |-> word_id, start |-> span.start, end |-> span.end,
     phonemes |->
        IF has_phonemes
        THEN LET mid == (span.start + span.end) \div 2
             IN  <<[text |-> "AH0", start |-> span.start, end |-> mid],
                   [text |-> "T", start |-> mid, end |-> span.end]>>
        ELSE <<>>]

\* The reconciled word sequences (mfa_data): ids in document order.
AlignedWordLists ==
    UNION {{[k \in 1..Len(spans) |-> AlignedWord(k - 1, spans[k], ph[k])] :
                ph \in [1..Len(spans) -> BOOLEAN]} :
           spans \in WordSpans(0, MaxCutWords) \ {<<>>}}

\* The documented degenerate case: the preceding word ends at 2.0 s, the
\* removed word spans [2.0, 2.0] and the following word starts at 2.0 s.
DegenerateWords ==
    <<AlignedWord(0, [start |-> 1000, end |-> 2000], FALSE),
      AlignedWord(1, [start |-> 2000, end |-> 2000], FALSE),
      AlignedWord(2, [start |-> 2000, end |-> 3000], FALSE)>>

\* The removal requests: a word list and a contiguous run of its ids.
CutRequests ==
    UNION {{[all_words |-> words, word_ids_to_cut |-> [k \in 1..(j - i + 1) |-> words[i + k - 1].id]] :
                i \in 1..Len(words), j \in 1..Len(words)} \ 
           {[all_words |-> words, word_ids_to_cut |-> <<>>]} :
           words \in AlignedWordLists}
    \cup {[all_words |-> DegenerateWords, word_ids_to_cut |-> <<1>>]}

\* word_id_map = {word['id']: word for word in mfa_data}
WordIdMap(all_words) ==
    [word_id \in {all_words[k].id : k \in 1..Len(all_words)} |->
        all_words[CHOOSE k \in 1..Len(all_words) :
                     /\ all_words[k].id = word_id
                     /\ \A j \in (k + 1)..Len(all_words) : all_words[j].id # word_id]]

\* next((i for i, w in enumerate(all_words) if w["id"] == word_id), -1)
IndexOfWord(all_words, word_id) ==
    IF \E k \in 1..Len(all_words) : all_words[k].id = word_id
    THEN (CHOOSE k \in 1..Len(all_words) :
             /\ all_words[k].id = word_id
             /\ \A j \in 1..(k - 1) : all_words[j].id # word_id) - 1
    ELSE -1

\* duration * inv for a factor kept in tenths.
Scaled(duration, inv_tenths) == (duration * inv_tenths) \div 10

\* Mutation: the natural start is the preceding word's end, not the midpoint.
CutStartTime_PrecedingEnd(all_words, word_id_map, first_word_id, first_word_idx, bwd_inv) ==
    IF first_word_idx > 0 THEN At(all_words, first_word_idx - 1).end ELSE 0

\* --- Calculate Start Time ---
CutStartTime(all_words, word_id_map, first_word_id, first_word_idx, bwd_inv) ==
    IF bwd_inv > 0
    THEN IF first_word_idx > 0 /\ At(all_words, first_word_idx - 1).phonemes # <<>>
         THEN LET last_phoneme == Last(At(all_words, first_word_idx - 1).phonemes)
                  duration == last_phoneme.end - last_phoneme.start
              IN  last_phoneme.end - Scaled(duration, bwd_inv)
         ELSE word_id_map[first_word_id].start
    ELSE IF first_word_idx > 0
         THEN (At(all_words, first_word_idx - 1).end + word_id_map[first_word_id].start) \div 2
         ELSE 0

\* Mutation: the following word is invaded through its last phoneme.
CutEndTime_LastPhoneme(all_words, word_id_map, last_word_id, last_word_idx, fwd_inv) ==
    IF fwd_inv > 0
    THEN IF last_word_idx < Len(all_words) - 1 /\ At(all_words, last_word_idx + 1).phonemes # <<>>
         THEN LET first_phoneme == Last(At(all_words, last_word_idx + 1).phonemes)
                  duration == first_phoneme.end - first_phoneme.start
              IN  first_phoneme.start + Scaled(duration, fwd_inv)
         ELSE word_id_map[last_word_id].end
    ELSE IF last_word_idx < Len(all_words) - 1
         THEN (word_id_map[last_word_id].end + At(all_words, last_word_idx + 1).start) \div 2
         ELSE word_id_map[last_word_id].end

\* --- Calculate End Time ---
CutEndTime(all_words, word_id_map, last_word_id, last_word_idx, fwd_inv) ==
    IF fwd_inv > 0
    THEN IF last_word_idx < Len(all_words) - 1 /\ At(all_words, last_word_idx + 1).phonemes # <<>>
         THEN LET first_phoneme == At(all_words, last_word_idx + 1).phonemes[1]
                  duration == first_phoneme.end - first_phoneme.start
              IN  first_phoneme.start + Scaled(duration, fwd_inv)
         ELSE word_id_map[last_word_id].end
    ELSE IF last_word_idx < Len(all_words) - 1
         THEN (word_id_map[last_word_id].end + At(all_words, last_word_idx + 1).start) \div 2
         ELSE word_id_map[last_word_id].end

GetCutBoundaries(word_ids_to_cut, word_id_map, all_words, bwd_inv, fwd_inv) ==
    LET first_word_id == word_ids_to_cut[1]
        last_word_id == Last(word_ids_to_cut)
        first_word_idx == IndexOfWord(all_words, first_word_id)
        last_word_idx == IndexOfWord(all_words, last_word_id)
    IN  [start_time |-> CutStartTime(all_words, word_id_map, first_word_id,
                                     first_word_idx, bwd_inv),
         end_time |-> CutEndTime(all_words, word_id_map, last_word_id,
                                 last_word_idx, fwd_inv)]

InitCut ==
    /\ \E req \in CutRequests, bwd_inv \in InvasionChoices, fwd_inv \in InvasionChoices :
          cut = [pc |-> "call",
                 all_words |-> req.all_words,
                 word_ids_to_cut |-> req.word_ids_to_cut,
                 bwd_inv |-> bwd_inv,
                 fwd_inv |-> fwd_inv,
                 start_time |-> -1,
                 end_time |-> -1]
    /\ seg = Idle /\ mfa = Idle /\ ed = Idle /\ norm = Idle /\ zc = Idle
    /\ main = Idle /\ orch = Idle /\ val = Idle

\* self._get_cut_boundaries(cut_word_ids, word_id_map, mfa_data, bwd, fwd)
GetCutBoundariesCall ==
    /\ cut.pc = "call"
    /\ LET b == GetCutBoundaries(cut.word_ids_to_cut, WordIdMap(cut.all_words),
                                 cut.all_words, cut.bwd_inv, cut.fwd_inv)
       IN  cut' = [cut EXCEPT !.pc = "done",
                              !.start_time = b.start_time,
                              !.end_time = b.end_time]
    /\ UNCHANGED <<seg, mfa, ed, norm, zc, main, orch, val>>

NextCut == GetCutBoundariesCall

SpecCut == InitCut /\ [][NextCut]_vars

(***************************************************************************)
(* main (the batch driver) and PipelineOrchestrator.run.  main holds the   *)
(* driver's position and bookkeeping, orch the run of the current          *)
(* recording.  Every stage of a run either completes or raises; which one  *)
(* is the environment's choice.                                            *)
(***************************************************************************)
MaxRecordings == 2

None == "None"

\* config.yaml as main reads it: a key that is absent reads as None.
Configs ==
    [dictionary_name : {None, "english_us_arpa"},
     acoustic_model_name : {None, "english_us_arpa"},
     elevenlabs : {None, "key"},
     use_cache : BOOLEAN]

Stages == {"load_audio", "vad", "split_point", "scribe_chunker", "audio_splitter",
           "scribe_trascriber", "scribe_normalizer", "mfa_chunker",
           "mfa_chunk_validator", "mfa_aligner", "mfa_normalizer"}

Artifacts == {"vad", "scribe", "mfa"}

\* Mutation: an exception leaves run without passing through the cleanup.
RaiseTarget_NoFinally == "raised"

\* try: ... finally: an exception raised inside the try reaches the finally block.
RaiseTarget == "finally"

\* Mutation: an empty speech table does not end the run.
AfterVad_IgnoreEmpty(vad_empty) == "scribe"

\* if vad_df.empty: return
AfterVad(vad_empty) == IF vad_empty THEN "finally" ELSE "scribe"

\* Mutation: a failed tool is logged and the run goes on.
AfterTool_IgnoreFailure(ok, next_pc) == next_pc

\* subprocess.run(..., check=True) and the aligner's `raise`.
AfterTool(ok, next_pc) == IF ok THEN next_pc ELSE RaiseTarget

\* Mutation: the handler of the batch loop leaves the loop.
AfterFailure_LeaveLoop == "returned"

\* except Exception as e: logging.error(...) -- the for loop goes on.
AfterFailure == "loop"

\* ' '.join(mfa_command) raises TypeError when an identifier is None.
AlignerCommandBuilds(config) ==
    config.dictionary_name # None /\ config.acoustic_model_name # None

\* use_cache and <path>.exists(): the file may exist only when caching is on.
CacheHits(config) == IF config.use_cache THEN BOOLEAN ELSE {FALSE}

\* pd.NA / NaN: a missing cell of the metadata table.  Present paths are
\* positive numbers, one per file.
NA == 0

\* The metadata table has at most one more row than recordings.
MaxRows == MaxRecordings + 1

\* The converted_file_path column of the metadata CSV: row k names file k
\* or has no path; at most MaxRecordings rows name a file.
PathColumns ==
    {[k \in 1..Len(present) |-> IF present[k] THEN k ELSE NA] :
        present \in {p \in UNION {[1..n -> BOOLEAN] : n \in 0..MaxRows} :
                        Cardinality({k \in DOMAIN p : p[k]}) <= MaxRecordings}}

\* df = pd.read_csv(...); the three output columns are added as pd.NA.  The
\* row labels are 0, 1, ...: row label r is element r + 1.
ReadCsv(column) ==
    [k \in 1..Len(column) |->
        [converted_file_path |-> column[k],
         vad_path |-> NA, scribe_path |-> NA, mfa_path |-> NA]]

\* [Path(p) for p in df['converted_file_path'].dropna().tolist()]
AudioFiles(df) ==
    LET paths == [k \in 1..Len(df) |-> df[k].converted_file_path]
    IN  SelectSeq(paths, LAMBDA p : p # NA)

\* df.loc[index, 'vad_path'] = ...; df.loc[index, 'scribe_path'] = ...;
\* df.loc[index, 'mfa_path'] = ...: the row labelled index receives the
\* three paths derived from audio_path (a label not in the table would add
\* a row).
DfLocSet(df, index, audio_path) ==
    LET row == [converted_file_path |-> NA, vad_path |-> audio_path,
                scribe_path |-> audio_path, mfa_path |-> audio_path]
    IN  IF index < Len(df)
        THEN [df EXCEPT ![index + 1] =
                 [@ EXCEPT !.vad_path = audio_path, !.scribe_path = audio_path,
                           !.mfa_path = audio_path]]
        ELSE Append(df, row)

InitMain ==
    /\ \E config \in Configs :
          main = [pc |-> "startup",
                  config |-> config,
                  df |-> <<>>,
                  audio_files |-> <<>>,
                  index |-> 0,
                  started |-> {},
                  outcomes |-> <<>>,
                  csv_saved |-> FALSE]
    /\ orch = Idle
    /\ seg = Idle /\ mfa = Idle /\ ed = Idle /\ norm = Idle /\ zc = Idle
    /\ cut = Idle /\ val = Idle

\* main: config = load_config(); services = {...}; orchestrator = ...
MainStartup ==
    /\ main.pc = "startup"
    /\ main' = [main EXCEPT !.pc = IF main.config.elevenlabs = None
                                   THEN "crashed" ELSE "load_metadata"]
    /\ UNCHANGED <<seg, mfa, ed, norm, zc, cut, orch, val>>

\* main: read the metadata CSV; return when it is missing or lists no audio.
MainLoadMetadata ==
    /\ main.pc = "load_metadata"
    /\ \E column \in PathColumns :
          LET df == ReadCsv(column)
              audio_files == AudioFiles(df)
          IN  main' = [main EXCEPT !.pc = IF audio_files = <<>> THEN "returned" ELSE "loop",
                                   !.df = df,
                                   !.audio_files = audio_files]
    /\ UNCHANGED <<seg, mfa, ed, norm, zc, cut, orch, val>>

\* for index, audio_path in enumerate(...): orchestrator.run(audio_path);
\* run: temp_work_dir = Path(tempfile.mkdtemp(prefix="pipeline_"))
MainStartRun ==
    /\ main.pc = "loop"
    /\ main.index < Len(main.audio_files)
    /\ main' = [main EXCEPT !.pc = "in_run", !.started = @ \cup {main.index}]
    /\ orch' = [pc |-> "load_audio",
                temp_dir |-> TRUE,
                temp_files |-> FALSE,
                vad_empty |-> FALSE,
                stages_run |-> {},
                written |-> {},
                failed |-> None]
    /\ UNCHANGED <<seg, mfa, ed, norm, zc, cut, val>>

\* One stage of run: the services in `calls` are invoked; on success the
\* artifacts in `writes` exist and the run moves to next_pc.
StageStep(calls, ok, writes, files, target) ==
    orch' = [orch EXCEPT !.pc = target,
                         !.stages_run = @ \cup calls,
                         !.written = IF ok THEN @ \cup writes ELSE @,
                         !.temp_files = @ \/ files,
                         !.failed = IF ok THEN None ELSE CHOOSE s \in calls : TRUE]

\* audio = AudioSegment.from_file(audio_path)
OrchLoadAudio ==
    /\ orch.pc = "load_audio"
    /\ \E ok \in BOOLEAN :
          StageStep({"load_audio"}, ok, {}, FALSE, IF ok THEN "vad" ELSE RaiseTarget)
    /\ UNCHANGED <<seg, mfa, ed, norm, zc, cut, main, val>>

\* Stage 1: the cached table is read, or the detector runs and its table is
\* written; an empty table ends the run.
OrchVad ==
    /\ orch.pc = "vad"
    /\ \E hit \in CacheHits(main.config), ok \in BOOLEAN, empty \in BOOLEAN :
          IF hit
          THEN orch' = [orch EXCEPT !.pc = AfterVad(empty), !.vad_empty = empty]
          ELSE orch' = [orch EXCEPT !.pc = IF ok THEN AfterVad(empty) ELSE RaiseTarget,
                                    !.stages_run = @ \cup {"vad"},
                                    !.written = IF ok THEN @ \cup {"vad"} ELSE @,
                                    !.vad_empty = ok /\ empty,
                                    !.failed = IF ok THEN None ELSE "vad"]
    /\ UNCHANGED <<seg, mfa, ed, norm, zc, cut, main, val>>

\* Stage 2, first half: split points, transcription chunks, chunk audio
\* files in the working directory (skipped on a cache hit).
OrchScribeChunks ==
    /\ orch.pc = "scribe"
    /\ \E hit \in CacheHits(main.config), ok \in BOOLEAN, files \in BOOLEAN :
          IF hit
          THEN orch' = [orch EXCEPT !.pc = "mfa"]
          ELSE StageStep({"audio_splitter", "split_point", "scribe_chunker"}, ok, {},
                         ok \/ files, IF ok THEN "transcribe" ELSE RaiseTarget)
    /\ UNCHANGED <<seg, mfa, ed, norm, zc, cut, main, val>>

\* Stage 2, second half: transcribe every chunk, normalise, write the JSON.
OrchTranscribe ==
    /\ orch.pc = "transcribe"
    /\ \E ok \in BOOLEAN :
          StageStep({"scribe_trascriber", "scribe_normalizer"}, ok, {"scribe"}, FALSE,
                    IF ok THEN "mfa" ELSE RaiseTarget)
    /\ UNCHANGED <<seg, mfa, ed, norm, zc, cut, main, val>>

\* Stage 3: split points, alignment chunks, .lab and .wav files in the
\* working directory (the whole stage is skipped on a cache hit).
OrchMfaPrepare ==
    /\ orch.pc = "mfa"
    /\ \E hit \in CacheHits(main.config), ok \in BOOLEAN, files \in BOOLEAN :
          IF hit
          THEN orch' = [orch EXCEPT !.pc = "finally"]
          ELSE StageStep({"audio_splitter", "split_point", "mfa_chunker"}, ok, {},
                         ok \/ files, IF ok THEN "validator" ELSE RaiseTarget)
    /\ UNCHANGED <<seg, mfa, ed, norm, zc, cut, main, val>>

\* validated_chunks = self.services['mfa_chunk_validator'].run(...)
OrchValidator ==
    /\ orch.pc = "validator"
    /\ \E ok \in BOOLEAN :
          StageStep({"mfa_chunk_validator"}, ok, {}, FALSE, AfterTool(ok, "aligner"))
    /\ UNCHANGED <<seg, mfa, ed, norm, zc, cut, main, val>>

\* mfa_output_dir = self.services['mfa_aligner'].run(temp_work_dir)
OrchAligner ==
    /\ orch.pc = "aligner"
    /\ \E ok \in (IF AlignerCommandBuilds(main.config) THEN BOOLEAN ELSE {FALSE}) :
          StageStep({"mfa_aligner"}, ok, {}, FALSE, AfterTool(ok, "normalizer"))
    /\ UNCHANGED <<seg, mfa, ed, norm, zc, cut, main, val>>

\* final_mfa_data = self.services['mfa_normalizer'].run(...)
OrchNormalizer ==
    /\ orch.pc = "normalizer"
    /\ \E ok \in BOOLEAN :
          StageStep({"mfa_normalizer"}, ok, {}, FALSE,
                    IF ok THEN "write_mfa" ELSE RaiseTarget)
    /\ UNCHANGED <<seg, mfa, ed, norm, zc, cut, main, val>>

\* with open(mfa_output_path, 'w') as f: json.dump(final_mfa_data, f, indent=4)
OrchWriteMfa ==
    /\ orch.pc = "write_mfa"
    /\ \E ok \in BOOLEAN :
          orch' = [orch EXCEPT !.pc = IF ok THEN "finally" ELSE RaiseTarget,
                               !.written = IF ok THEN @ \cup {"mfa"} ELSE @,
                               !.failed = IF ok THEN None ELSE "write_mfa"]
    /\ UNCHANGED <<seg, mfa, ed, norm, zc, cut, main, val>>

\* finally: shutil.rmtree(temp_work_dir)
OrchFinally ==
    /\ orch.pc = "finally"
    /\ orch' = [orch EXCEPT !.pc = IF orch.failed = None THEN "returned" ELSE "raised",
                            !.temp_dir = FALSE,
                            !.temp_files = FALSE]
    /\ UNCHANGED <<seg, mfa, ed, norm, zc, cut, main, val>>

\* run returned: the three output paths are recorded for the recording.
MainRunReturned ==
    /\ main.pc = "in_run"
    /\ orch.pc = "returned"
    /\ main' = [main EXCEPT !.pc = "loop",
                            !.index = @ + 1,
                            !.outcomes = Append(@, "returned"),
                            !.df = DfLocSet(@, main.index, At(main.audio_files, main.index))]
    /\ UNCHANGED <<seg, mfa, ed, norm, zc, cut, orch, val>>

\* run raised: except Exception as e: logging.error(...)
MainRunRaised ==
    /\ main.pc = "in_run"
    /\ orch.pc = "raised"
    /\ main' = [main EXCEPT !.pc = AfterFailure,
                            !.index = @ + 1,
                            !.outcomes = Append(@, "raised")]
    /\ UNCHANGED <<seg, mfa, ed, norm, zc, cut, orch, val>>

\* df.to_csv(metadata_csv_path, index=False)
MainSave ==
    /\ main.pc = "loop"
    /\ main.index = Len(main.audio_files)
    /\ main' = [main EXCEPT !.pc = "done", !.csv_saved = TRUE]
    /\ UNCHANGED <<seg, mfa, ed, norm, zc, cut, orch, val>>

NextMain ==
    \/ MainStartup
    \/ MainLoadMetadata
    \/ MainStartRun
    \/ OrchLoadAudio
    \/ OrchVad
    \/ OrchScribeChunks
    \/ OrchTranscribe
    \/ OrchMfaPrepare
    \/ OrchValidator
    \/ OrchAligner
    \/ OrchNormalizer
    \/ OrchWriteMfa
    \/ OrchFinally
    \/ MainRunReturned
    \/ MainRunRaised
    \/ MainSave

SpecMain == InitMain /\ [][NextMain]_vars

\* The driver is sequential and every stage ends (by completing or raising),
\* so a step that is possible is eventually taken.
SpecMainLive == SpecMain /\ WF_vars(NextMain)

(***************************************************************************)
(* MfaChunkValidatorService.  A token is a string, kept as a sequence of   *)
(* characters; a word is the concatenation of its tokens.                  *)
(***************************************************************************)
MaxCharTokens == 5

MaxReportTokens == 3

\* The tokens of a character stream: empty, blank, plain, padded, two characters.
CharTokenChoices == {<<>>, <<" ">>, <<"a">>, <<" ", "b">>, <<"c", "d">>}

\* "".join(current_word)
RECURSIVE Join(_)
Join(tokens) == IF tokens = <<>> THEN <<>> ELSE tokens[1] \o Join(Tail(tokens))

\* Mutation: a word still pending at the end of the stream is dropped.
FinalFlush_Dropped(words, current_word) == words

\* if current_word: words.append("".join(current_word))   (after the loop)
FinalFlush(words, current_word) ==
    IF current_word # <<>> THEN Append(words, Join(current_word)) ELSE words

\* The for loop of _collect_words_from_chars from token k on.
RECURSIVE CollectLoop(_, _, _, _)
CollectLoop(char_tokens, k, words, current_word) ==
    IF k > Len(char_tokens) THEN FinalFlush(words, current_word)
    ELSE LET token == Strip(char_tokens[k])
         IN  IF token = <<>>
             THEN IF current_word # <<>>
                  THEN CollectLoop(char_tokens, k + 1,
                                   Append(words, Join(current_word)), <<>>)
                  ELSE CollectLoop(char_tokens, k + 1, words, current_word)
             ELSE CollectLoop(char_tokens, k + 1, words, Append(current_word, token))

CollectWordsFromChars(char_tokens) == CollectLoop(char_tokens, 1, <<>>, <<>>)

InitCollect ==
    /\ \E char_tokens \in SeqsUpTo(CharTokenChoices, MaxCharTokens) :
          val = [pc |-> "call", char_tokens |-> char_tokens, words |-> <<>>]
    /\ seg = Idle /\ mfa = Idle /\ ed = Idle /\ norm = Idle /\ zc = Idle
    /\ cut = Idle /\ main = Idle /\ orch = Idle

\* self._collect_words_from_chars(char_tokens)
CollectWordsFromCharsCall ==
    /\ val.pc = "call"
    /\ val' = [val EXCEPT !.pc = "done",
                          !.words = CollectWordsFromChars(val.char_tokens)]
    /\ UNCHANGED <<seg, mfa, ed, norm, zc, cut, main, orch>>

NextCollect == CollectWordsFromCharsCall

SpecCollect == InitCollect /\ [][NextCollect]_vars

\* The tokens of a report line after split(","): a character or nothing.
ReportTokens == {<<>>, <<"a">>, <<"b">>}

\* "...".split(",") never returns an empty list.
ReportStreams == SeqsUpTo(ReportTokens, MaxReportTokens) \ {<<>>}

\* A line of utterance_oovs.txt as the regular expression reads it: no
\* match, or the chunk id and the comma-separated remainder.
ReportLines ==
    {[matches |-> FALSE, chunk_id |-> 0, char_tokens |-> <<<<>>>>]}
    \cup [matches : {TRUE}, chunk_id : {0, 1}, char_tokens : ReportStreams]

\* The report: no line, one line or two lines.
Reports ==
    {<<>>} \cup {<<l>> : l \in ReportLines}
    \cup {<<l1, l2>> : l1 \in ReportLines, l2 \in ReportLines}

\* The chunk inventory handed to the validator.
ValidatorChunks == <<[id |-> 0], [id |-> 1]>>

\* oov_map[chunk_id] = words
WithEntry(oov_map, chunk_id, words) ==
    [id \in DOMAIN oov_map \cup {chunk_id} |->
        IF id = chunk_id THEN words ELSE oov_map[id]]

\* chunk["contains_oov"] = ...; chunk["oov_words"] = oov_map.get(chunk["id"], [])
Annotated(chunk, oov_map) ==
    [id |-> chunk.id,
     contains_oov |-> chunk.id \in DOMAIN oov_map,
     oov_words |-> IF chunk.id \in DOMAIN oov_map THEN oov_map[chunk.id] ELSE <<>>]

InitVal ==
    /\ \E has_report \in BOOLEAN :
       \E report \in (IF has_report THEN Reports ELSE {<<>>}) :
          val = [pc |-> "validate",
                 chunks |-> ValidatorChunks,
                 has_report |-> has_report,
                 report |-> report,
                 line_index |-> 0,
                 oov_map |-> <<>>]
    /\ seg = Idle /\ mfa = Idle /\ ed = Idle /\ norm = Idle /\ zc = Idle
    /\ cut = Idle /\ main = Idle /\ orch = Idle

\* subprocess.run(cmd, check=True, ...): the validator succeeds, or run raises.
ValidatorRun ==
    /\ val.pc = "validate"
    /\ \E ok \in BOOLEAN :
          val' = [val EXCEPT !.pc = IF ok THEN "lines" ELSE "raised"]
    /\ UNCHANGED <<seg, mfa, ed, norm, zc, cut, main, orch>>

\* for line in fh: one line of the report.
ValidatorLine ==
    /\ val.pc = "lines"
    /\ val.line_index < Len(val.report)
    /\ LET line == At(val.report, val.line_index)
       IN  val' = [val EXCEPT
                     !.line_index = @ + 1,
                     !.oov_map = IF line.matches
                                 THEN WithEntry(@, line.chunk_id,
                                                CollectWordsFromChars(line.char_tokens))
                                 ELSE @]
    /\ UNCHANGED <<seg, mfa, ed, norm, zc, cut, main, orch>>

\* for chunk in chunks: annotate; return chunks.
ValidatorAnnotate ==
    /\ val.pc = "lines"
    /\ val.line_index = Len(val.report)
    /\ val' = [val EXCEPT
                 !.pc = "done",
                 !.chunks = [k \in 1..Len(val.chunks) |-> Annotated(val.chunks[k], val.oov_map)]]
    /\ UNCHANGED <<seg, mfa, ed, norm, zc, cut, main, orch>>

NextVal == ValidatorRun \/ ValidatorLine \/ ValidatorAnnotate

SpecVal == InitVal /\ [][NextVal]_vars

(***************************************************************************)
(* Claims about SplitPointService.run and ScribeChunkerService.run,        *)
(* checked under SpecSeg.                                                  *)
(***************************************************************************)
SplitPointDone == seg.pc \in {"scribe_chunker", "while", "done"}

PointsMs(df) == [k \in 1..Len(df) |-> df[k].split_point_ms]

StrictlyIncreasing(s) == \A i \in 1..(Len(s) - 1) : s[i] < s[i + 1]

\* Non-empty, each start_ms < end_ms, time-ordered, non-overlapping, within [0, total].
VadWithin(v, total) ==
    /\ v # <<>>
    /\ \A i \in 1..Len(v) : 0 <= v[i].start_ms /\ v[i].start_ms < v[i].end_ms
    /\ \A i \in 1..(Len(v) - 1) : v[i].end_ms <= v[i + 1].start_ms
    /\ Last(v).end_ms <= total

\* C1: for a non-empty, ordered, non-overlapping interval table lying within
\* [0, total_duration], SplitPointService.run returns len(intervals)+1 points,
\* strictly increasing, the first 0 and the last total_duration.
C1_SplitPointShape ==
    (SplitPointDone /\ VadWithin(seg.vad_timestamps_df, seg.total_duration_ms)) =>
        /\ Len(seg.split_points_df) = Len(seg.vad_timestamps_df) + 1
        /\ StrictlyIncreasing(PointsMs(seg.split_points_df))
        /\ seg.split_points_df[1].split_point_ms = 0
        /\ Last(seg.split_points_df).split_point_ms = seg.total_duration_ms

\* Three intervals, two of them touching (a zero-width silence), one odd gap.
C1_Witness ==
    /\ SplitPointDone
    /\ VadWithin(seg.vad_timestamps_df, seg.total_duration_ms)
    /\ Len(seg.vad_timestamps_df) = 3
    /\ seg.vad_timestamps_df[1].end_ms = seg.vad_timestamps_df[2].start_ms
    /\ seg.vad_timestamps_df[3].start_ms - seg.vad_timestamps_df[2].end_ms = 1
    /\ Last(seg.vad_timestamps_df).end_ms = seg.total_duration_ms

\* The precondition of the chunker claims: strictly increasing, two points or more.
ChunkerPre == Len(seg.split_points) >= 2 /\ StrictlyIncreasing(seg.split_points)

\* A forced chunk: two adjacent split points that are more than D apart.
IsForcedStep(c, split_points, D) ==
    \E i \in 1..(Len(split_points) - 1) :
        /\ c.chunk_start_ms = split_points[i]
        /\ c.chunk_end_ms = split_points[i + 1]
        /\ split_points[i + 1] - split_points[i] > D

\* C2: every chunk is within the budget or is a forced step between adjacent
\* split points more than D apart; the chunks are contiguous, start at the
\* first split point and, when run returns, end at the last one.
C2_ChunksWithinBudgetAndContiguous ==
    (seg.pc \in {"while", "done"} /\ ChunkerPre) =>
        /\ \A k \in 1..Len(seg.chunks) :
              \/ seg.chunks[k].chunk_end_ms - seg.chunks[k].chunk_start_ms <= seg.max_duration_ms
              \/ IsForcedStep(seg.chunks[k], seg.split_points, seg.max_duration_ms)
        /\ \A k \in 1..(Len(seg.chunks) - 1) :
              seg.chunks[k + 1].chunk_start_ms = seg.chunks[k].chunk_end_ms
        /\ seg.chunks # <<>> => seg.chunks[1].chunk_start_ms = seg.split_points[1]
        /\ seg.pc = "done" =>
              /\ seg.chunks # <<>>
              /\ Last(seg.chunks).chunk_end_ms = Last(seg.split_points)

\* A finished run with a forced oversized chunk between two in-budget chunks.
C2_Witness ==
    /\ seg.pc = "done" /\ ChunkerPre
    /\ Len(seg.chunks) = 3
    /\ seg.chunks[2].chunk_end_ms - seg.chunks[2].chunk_start_ms > seg.max_duration_ms
    /\ seg.chunks[1].chunk_end_ms - seg.chunks[1].chunk_start_ms <= seg.max_duration_ms
    /\ seg.chunks[3].chunk_end_ms - seg.chunks[3].chunk_start_ms <= seg.max_duration_ms

\* The contiguous partitions of the range at split points: a partition is the
\* set of 0-based indices it cuts at, always holding the first and the last.
Partitions(split_points) ==
    {inner \cup {0, Len(split_points) - 1} :
        inner \in SUBSET (1..(Len(split_points) - 2))}

\* Every chunk of the partition is within D or is one step between adjacent points.
Allowed(cuts, split_points, D) ==
    \A i \in cuts : \A j \in cuts :
        (i < j /\ \A m \in cuts : ~(i < m /\ m < j)) =>
            \/ At(split_points, j) - At(split_points, i) <= D
            \/ (j = i + 1 /\ At(split_points, j) - At(split_points, i) > D)

\* C3: no allowed partition has fewer chunks than the greedy output.
C3_GreedyMinimizesChunkCount ==
    (seg.pc = "done" /\ ChunkerPre) =>
        \A cuts \in Partitions(seg.split_points) :
            Allowed(cuts, seg.split_points, seg.max_duration_ms) =>
                Len(seg.chunks) <= Cardinality(cuts) - 1

\* A finished run of two or more chunks where some allowed partition is
\* strictly longer than the greedy one.
C3_Witness ==
    /\ seg.pc = "done" /\ ChunkerPre
    /\ Len(seg.split_points) >= 4
    /\ Len(seg.chunks) = 2
    /\ \E cuts \in Partitions(seg.split_points) :
          /\ Allowed(cuts, seg.split_points, seg.max_duration_ms)
          /\ Cardinality(cuts) - 1 > Len(seg.chunks)

\* C4: the k-th intermediate point lies in the silence between interval k-1
\* and interval k, at silence_start + floor((silence_end - silence_start)/2);
\* the documented scenario yields points [0, 3500, 7000] and chunks
\* [(0,3500), (3500,7000)].
C4_SilenceMidpointAndScenario ==
    /\ SplitPointDone =>
          \A k \in 1..(Len(seg.vad_timestamps_df) - 1) :
              LET prev == At(seg.vad_timestamps_df, k - 1)
                  next == At(seg.vad_timestamps_df, k)
                  p == At(seg.split_points_df, k)
              IN  /\ p.silence_start_ms = prev.end_ms
                  /\ p.silence_end_ms = next.start_ms
                  /\ p.split_point_ms =
                        prev.end_ms + ((next.start_ms - prev.end_ms) \div 2)
    /\ (SplitPointDone /\ seg.vad_timestamps_df = ScenarioVad
                       /\ seg.total_duration_ms = 7000) =>
          PointsMs(seg.split_points_df) = <<0, 3500, 7000>>
    /\ (seg.pc = "done" /\ seg.vad_timestamps_df = ScenarioVad
                        /\ seg.total_duration_ms = 7000 /\ seg.max_duration_ms = 5000) =>
          seg.chunks = <<[chunk_start_ms |-> 0, chunk_end_ms |-> 3500],
                         [chunk_start_ms |-> 3500, chunk_end_ms |-> 7000]>>

\* The documented scenario, run to the end.
C4_Witness ==
    /\ seg.pc = "done"
    /\ seg.vad_timestamps_df = ScenarioVad
    /\ seg.total_duration_ms = 7000
    /\ seg.max_duration_ms = 5000
    /\ Len(seg.chunks) = 2


(***************************************************************************)
(* Claims about MfaChunkerService.run, checked under SpecMfa.              *)
(***************************************************************************)
Holds(w, t) == w.start <= t /\ t <= w.end

InsideTokenOfType(words, t, types) ==
    \E i \in 1..Len(words) : words[i].type \in types /\ Holds(words[i], t)

OutsideEveryToken(words, t) == \A i \in 1..Len(words) : ~Holds(words[i], t)

StrictlyInsideTokenOfType(words, t, types) ==
    \E i \in 1..Len(words) :
        words[i].type \in types /\ words[i].start < t /\ t < words[i].end

\* The first token, in transcript order, whose [start, end] holds t is a spacing token.
FirstTokenAtIsSpacing(words, t) ==
    \E i \in 1..Len(words) :
        /\ Holds(words[i], t)
        /\ words[i].type = "spacing"
        /\ \A j \in 1..(i - 1) : ~Holds(words[j], t)

\* C5 as stated: every emitted chunk ends at total_duration_s or at a split
\* point inside [start, end] of a spacing token, and never at a split point
\* inside [start, end] of a word or audio_event token or outside every token.
C5_AsStated ==
    \A k \in 1..Len(mfa.mfa_chunks) :
        LET e == mfa.mfa_chunks[k].end_s
        IN  \/ e = mfa.total_duration_s
            \/ /\ e \in Range(mfa.split_point_ms)
               /\ InsideTokenOfType(mfa.words, e, {"spacing"})
               /\ ~InsideTokenOfType(mfa.words, e, {"word", "audio_event"})
               /\ ~OutsideEveryToken(mfa.words, e)

\* C5 (amended): every emitted chunk ends at total_duration_s or at a split
\* point where the first token whose [start, end] holds it is a spacing
\* token; such a point may be the start of the following word or audio_event
\* token, but is never strictly inside one nor outside every token.
C5_EndsOnFirstSpacingOrEnd ==
    \A k \in 1..Len(mfa.mfa_chunks) :
        LET e == mfa.mfa_chunks[k].end_s
        IN  \/ e = mfa.total_duration_s
            \/ /\ e \in Range(mfa.split_point_ms)
               /\ FirstTokenAtIsSpacing(mfa.words, e)
               /\ ~StrictlyInsideTokenOfType(mfa.words, e, {"word", "audio_event"})
               /\ ~OutsideEveryToken(mfa.words, e)

\* A chunk closed before the end of the recording, at the point where a
\* spacing token ends and a word token starts.
C5_Witness ==
    \E k \in 1..Len(mfa.mfa_chunks) :
        LET e == mfa.mfa_chunks[k].end_s
        IN  /\ e < mfa.total_duration_s
            /\ \E i \in 1..(Len(mfa.words) - 1) :
                  /\ mfa.words[i].type = "spacing" /\ mfa.words[i].end = e
                  /\ mfa.words[i + 1].type = "word" /\ mfa.words[i + 1].start = e

\* C6: when run returns with total_duration_s > 0, the closed spans (accepted
\* chunks and discarded word-less ones) tile [0, total_duration_s]: the first
\* starts at 0, each starts where the previous ended, the last ends at
\* total_duration_s; the accepted spans are exactly the returned chunks.
C6_SpansTileRecording ==
    /\ \A k \in 1..(Len(mfa.spans) - 1) :
          /\ mfa.spans[k + 1].start_s = mfa.spans[k].end_s
          /\ mfa.spans[k].start_s < mfa.spans[k].end_s
    /\ (mfa.pc = "done" /\ mfa.total_duration_s > 0) =>
          /\ mfa.spans # <<>>
          /\ mfa.spans[1].start_s = 0
          /\ Last(mfa.spans).end_s = mfa.total_duration_s
          /\ mfa.current_start_s = mfa.total_duration_s
          /\ LET kept == SelectSeq(mfa.spans, LAMBDA sp : sp.accepted)
             IN  /\ Len(kept) = Len(mfa.mfa_chunks)
                 /\ \A k \in 1..Len(kept) :
                       /\ kept[k].start_s = mfa.mfa_chunks[k].start_s
                       /\ kept[k].end_s = mfa.mfa_chunks[k].end_s

\* A finished run whose first span was discarded (no word starts in it) and
\* whose last span, shorter than the minimum duration, was accepted.
C6_Witness ==
    /\ mfa.pc = "done"
    /\ Len(mfa.spans) >= 2
    /\ ~mfa.spans[1].accepted
    /\ Last(mfa.spans).accepted
    /\ Last(mfa.spans).end_s - Last(mfa.spans).start_s < MinDurationMs


(***************************************************************************)
(* Claim about _edit_distance_leq, checked under SpecEd.                   *)
(***************************************************************************)
\* The Levenshtein distance by its defining recurrence on prefixes, with no
\* pruning: the reference the bounded check is compared with.
RECURSIVE Levenshtein(_, _)
Levenshtein(a, b) ==
    IF a = <<>> THEN Len(b)
    ELSE IF b = <<>> THEN Len(a)
    ELSE Min2(Min2(Levenshtein(Tail(a), b) + 1, Levenshtein(a, Tail(b)) + 1),
              Levenshtein(Tail(a), Tail(b)) + (IF a[1] = b[1] THEN 0 ELSE 1))

\* C7: _edit_distance_leq(a, b, k) is true exactly when the Levenshtein
\* distance of a and b is at most k; (a, a, 0) is true, ("cat", "cats", 2) is
\* true and ("cat", "dog", 2) is false.
C7_EditDistanceLeqIsExact ==
    ed.pc = "done" =>
        /\ ed.result = (Levenshtein(ed.a, ed.b) <= ed.max_dist)
        /\ (ed.a = ed.b /\ ed.max_dist = 0) => ed.result
        /\ (ed.a = Cat /\ ed.b = Cats /\ ed.max_dist = 2) => ed.result
        /\ (ed.a = Cat /\ ed.b = Dog /\ ed.max_dist = 2) => ~ed.result

\* A call the row-minimum exit decides: equal lengths (the length test
\* passes) and a distance above the threshold.
C7_Witness ==
    /\ ed.pc = "done"
    /\ ed.a = Cat /\ ed.b = Dog /\ ed.max_dist = 2
    /\ ~LengthsTooFar(ed.a, ed.b, ed.max_dist)
    /\ ~ed.result


(***************************************************************************)
(* Claims about MfaNormalizerService, checked under SpecNorm.              *)
(***************************************************************************)
\* The chunk a word was emitted from: the chunk whose scribe_words hold its id.
EmittedFrom(w, chunk) ==
    \E k \in 1..Len(chunk.scribe_words) : chunk.scribe_words[k].id = w.id

\* C8: every emitted word carries a chunk_info record; two words emitted from
\* the same chunk carry equal chunk_info, whose id, contains_audio_event,
\* contains_oov_words and oov_words are those of the chunk; transcript words
\* [HELLO, WORLD] against marks [HELO, WORLD] give no mismatch.
C8_SharedChunkDiagnostics ==
    /\ \A i \in 1..Len(norm.all_words) :
          /\ "chunk_info" \in DOMAIN norm.all_words[i]
          /\ \A c \in 1..Len(norm.mfa_chunks) :
                EmittedFrom(norm.all_words[i], norm.mfa_chunks[c]) =>
                    LET d == norm.all_words[i].chunk_info
                        chunk == norm.mfa_chunks[c]
                    IN  /\ d.id = chunk.id
                        /\ d.contains_audio_event = chunk.contains_audio_event
                        /\ d.contains_oov_words = chunk.contains_oov
                        /\ d.oov_words = chunk.oov_words
                        /\ \A j \in 1..Len(norm.all_words) :
                              EmittedFrom(norm.all_words[j], chunk) =>
                                  norm.all_words[j].chunk_info = d
    /\ \A f \in 1..Len(norm.textgrids) :
          LET chunks == ChunkOfId(norm.mfa_chunks, norm.tg_files[f])
          IN  \A chunk \in chunks :
                (/\ [k \in 1..Len(chunk.scribe_words) |-> chunk.scribe_words[k].text]
                        = <<Hello, World>>
                 /\ \A k \in 1..Len(chunk.scribe_words) : chunk.scribe_words[k].type = "word"
                 /\ [k \in 1..Len(norm.textgrids[f].word_tier) |->
                        norm.textgrids[f].word_tier[k].mark] = <<Helo, World>>) =>
                    \E i \in 1..(Len(norm.all_words) - 1) :
                        /\ norm.all_words[i].word = Hello
                        /\ norm.all_words[i].mfa_word = Helo
                        /\ norm.all_words[i + 1].word = World
                        /\ norm.all_words[i + 1].mfa_word = World
                        /\ norm.all_words[i].chunk_info = norm.all_words[i + 1].chunk_info
                        /\ norm.all_words[i].chunk_info.id = chunk.id
                        /\ ~norm.all_words[i].chunk_info.contains_mismatched_words
                        /\ norm.all_words[i].chunk_info.mismatched_pairs = <<>>

\* A finished run that emitted HELLO/HELO and WORLD/WORLD from chunk 0, whose
\* chunk carries OOV findings, and a third word from chunk 1.
C8_Witness ==
    /\ norm.pc = "done"
    /\ Len(norm.all_words) = 3
    /\ norm.all_words[1].word = Hello /\ norm.all_words[1].mfa_word = Helo
    /\ norm.all_words[2].word = World /\ norm.all_words[2].mfa_word = World
    /\ norm.all_words[1].chunk_info.contains_oov_words
    /\ norm.all_words[1].chunk_info.oov_words # <<>>
    /\ norm.all_words[3].chunk_info.id = 1
    /\ norm.all_words[3].chunk_info # norm.all_words[1].chunk_info


(***************************************************************************)
(* Claims about _find_outward_zero_crossing, checked under SpecZc.         *)
(***************************************************************************)
ZcInRange == 0 <= zc.sample_index /\ zc.sample_index < Len(zc.signal)

ZcStartSign == Sign(At(zc.signal, zc.sample_index))

\* i is the first sample, scanning from the start index in the given
\* direction, whose sign differs from the starting sample's sign.
IsCrossing(i) ==
    /\ 0 <= i /\ i < Len(zc.signal)
    /\ Sign(At(zc.signal, i)) # ZcStartSign
    /\ IF zc.direction = "forward"
       THEN i > zc.sample_index
            /\ \A j \in (zc.sample_index + 1)..(i - 1) : Sign(At(zc.signal, j)) = ZcStartSign
       ELSE i < zc.sample_index
            /\ \A j \in (i + 1)..(zc.sample_index - 1) : Sign(At(zc.signal, j)) = ZcStartSign

ExampleSignal == <<1, 1, -1, -1>>

\* C9 as stated: from an in-range start with a non-zero sample the search
\* returns the crossing index in both directions (forward from 0 on
\* [1,1,-1,-1] gives 2, backward from 3 gives 1); a zero start returns the
\* original index.
C9_AsStated ==
    (zc.pc = "done" /\ ZcInRange) =>
        /\ ZcStartSign = 0 => zc.result = zc.sample_index
        /\ ZcStartSign # 0 =>
              \A i \in 0..(Len(zc.signal) - 1) : IsCrossing(i) => zc.result = i
        /\ (zc.signal = ExampleSignal /\ zc.sample_index = 0 /\ zc.direction = "forward")
              => zc.result = 2
        /\ (zc.signal = ExampleSignal /\ zc.sample_index = 3 /\ zc.direction = "backward")
              => zc.result = 1

\* C9 (amended): the forward search returns the crossing index; the backward
\* search returns the crossing index plus one, the last sample scanned that
\* still has the starting sign (forward from 0 on [1,1,-1,-1] gives 2,
\* backward from 3 gives 2); a zero start returns the original index.
C9_ForwardCrossingBackwardOnePast ==
    (zc.pc = "done" /\ ZcInRange) =>
        /\ ZcStartSign = 0 => zc.result = zc.sample_index
        /\ ZcStartSign # 0 =>
              \A i \in 0..(Len(zc.signal) - 1) :
                  IsCrossing(i) =>
                      zc.result = IF zc.direction = "forward" THEN i ELSE i + 1
        /\ (zc.signal = ExampleSignal /\ zc.sample_index = 0 /\ zc.direction = "forward")
              => zc.result = 2
        /\ (zc.signal = ExampleSignal /\ zc.sample_index = 3 /\ zc.direction = "backward")
              => zc.result = 2

\* The backward search of the example, finished.
C9_Witness ==
    /\ zc.pc = "done"
    /\ zc.signal = ExampleSignal /\ zc.sample_index = 3 /\ zc.direction = "backward"
    /\ IsCrossing(1)


(***************************************************************************)
(* Claims about _get_cut_boundaries, checked under SpecCut.                *)
(***************************************************************************)
\* 1-based positions, in the word sequence, of the span's first and last word.
SpanFirstPos == CHOOSE k \in 1..Len(cut.all_words) : cut.all_words[k].id = cut.word_ids_to_cut[1]

SpanLastPos == CHOOSE k \in 1..Len(cut.all_words) : cut.all_words[k].id = Last(cut.word_ids_to_cut)

\* C10: with both invasion factors 0, start is the midpoint of the preceding
\* word's end and the span's first word's start (0 when the span starts the
\* sequence) and end is the midpoint of the span's last word's end and the
\* following word's start (the last word's end when nothing follows); the
\* documented degenerate case resolves both to 2.0 s.
C10_NaturalBoundaryMidpoints ==
    (cut.pc = "done" /\ cut.bwd_inv = 0 /\ cut.fwd_inv = 0) =>
        /\ IF SpanFirstPos = 1
           THEN cut.start_time = 0
           ELSE 2 * cut.start_time =
                    cut.all_words[SpanFirstPos - 1].end + cut.all_words[SpanFirstPos].start
        /\ IF SpanLastPos = Len(cut.all_words)
           THEN cut.end_time = cut.all_words[SpanLastPos].end
           ELSE 2 * cut.end_time =
                    cut.all_words[SpanLastPos].end + cut.all_words[SpanLastPos + 1].start
        /\ cut.all_words = DegenerateWords =>
              cut.start_time = 2000 /\ cut.end_time = 2000

\* A natural cut of a single middle word, with a real silence on either side.
C10_Witness ==
    /\ cut.pc = "done" /\ cut.bwd_inv = 0 /\ cut.fwd_inv = 0
    /\ Len(cut.all_words) = 3
    /\ cut.word_ids_to_cut = <<1>>
    /\ cut.all_words[1].end < cut.all_words[2].start
    /\ cut.all_words[2].end < cut.all_words[3].start
    /\ cut.all_words[1].end < cut.start_time /\ cut.start_time < cut.all_words[2].start
    /\ cut.all_words[2].end < cut.end_time /\ cut.end_time < cut.all_words[3].start


(***************************************************************************)
(* Claims about main and PipelineOrchestrator.run, checked under SpecMain  *)
(* (C13 under SpecMainLive).                                               *)
(***************************************************************************)
OrchRunning == orch.pc \notin {"idle", "returned", "raised"}

OrchExited == orch.pc \in {"returned", "raised"}

\* C11: the temporary working directory exists for the whole of a run, in
\* particular whenever a chunk file has been written, and is gone once run
\* has returned or raised, whichever way it ended.
C11_TempDirScoped ==
    /\ OrchRunning => orch.temp_dir
    /\ (orch.pc # "idle" /\ orch.temp_files) => orch.temp_dir
    /\ OrchExited => (~orch.temp_dir /\ ~orch.temp_files)

\* A run that wrote chunk files and then failed in the normalizer.
C11_Witness ==
    /\ orch.pc = "raised"
    /\ orch.failed = "mfa_normalizer"
    /\ "audio_splitter" \in orch.stages_run
    /\ ~orch.temp_dir

\* C12: when the validator or the aligner fails, the run is on its way out
\* with the exception: the normalizer has not been invoked and no alignment
\* JSON has been written.
C12_ToolFailureAbortsRecording ==
    (orch.pc # "idle" /\ orch.failed \in {"mfa_chunk_validator", "mfa_aligner"}) =>
        /\ orch.pc \in {"finally", "raised"}
        /\ "mfa_normalizer" \notin orch.stages_run
        /\ "mfa" \notin orch.written

\* The aligner failed and the exception has left run.
C12_Witness ==
    /\ orch.pc = "raised"
    /\ orch.failed = "mfa_aligner"
    /\ main.pc = "in_run"

\* C13: once the batch loop is entered, the pipeline is eventually started
\* for every recording of the list, whatever earlier runs did, and the
\* metadata CSV is eventually saved.
C13_BatchNeverHalts ==
    /\ \A i \in 0..(MaxRecordings - 1) :
          [](((main.pc = "loop") /\ (i < Len(main.audio_files))) => <>(i \in main.started))
    /\ [](main.pc = "loop" => <>main.csv_saved)

\* The first run raised, the second was still started, and the CSV is saved.
C13_Witness ==
    /\ main.pc = "done"
    /\ main.csv_saved
    /\ Len(main.outcomes) >= 2
    /\ main.outcomes[1] = "raised"
    /\ main.started = 0..(Len(main.audio_files) - 1)

\* C14 as stated: with the aligner's dictionary name or acoustic model name
\* missing from the configuration, the program fails at startup: the batch
\* loop is never entered and the pipeline is never started for a recording.
C14_AsStated ==
    (main.config.dictionary_name = None \/ main.config.acoustic_model_name = None) =>
        /\ main.pc # "in_run"
        /\ main.started = {}

\* C17: SplitPointService.run returns the empty sequence for an empty speech
\* table, and a run whose speech table is empty returns normally having run
\* nothing after the detector and written no transcript or alignment.
C17_EmptyVadEndsRun ==
    /\ \A total \in 0..MaxT : SplitPointRun(<<>>, total) = <<>>
    /\ (orch.pc # "idle" /\ orch.vad_empty) =>
          /\ orch.pc \in {"finally", "returned"}
          /\ orch.failed = None
          /\ orch.stages_run \subseteq {"load_audio", "vad"}
          /\ orch.written \subseteq {"vad"}

\* The detector ran, found no speech, and run has returned.
C17_Witness ==
    /\ orch.pc = "returned"
    /\ orch.vad_empty
    /\ "vad" \in orch.stages_run
    /\ ~orch.temp_dir


\* The words of all_words that were emitted from the given chunk.
WordsEmittedFrom(chunk) == SelectSeq(norm.all_words, LAMBDA w : EmittedFrom(w, chunk))

\* C15 as stated: a TextGrid that fails to parse, or a file whose name carries
\* no parseable chunk id, is skipped and contributes no words; every other
\* file is still processed; the failure never propagates out of run.
C15_AsStated ==
    /\ norm.pc # "raised"
    /\ \A f \in 1..Len(norm.textgrids) :
          ~norm.textgrids[f].parse_ok =>
              \A chunk \in ChunkOfId(norm.mfa_chunks, norm.tg_files[f]) :
                  WordsEmittedFrom(chunk) = <<>>
    /\ norm.pc = "done" =>
          Len(norm.textgrids) =
              Cardinality({tail \in norm.dir_listing : IntOfStemTail(tail) # ValueError})

\* The word-tier intervals that are paired with transcript words.
SpokenIntervals(tg) == SelectSeq(tg.word_tier, LAMBDA interval : ~IsSilenceMark(interval))

\* C16 as stated: when the number of non-placeholder intervals of a chunk
\* differs from the number of its transcript words, words are emitted until
\* one side is exhausted and the chunk's diagnostics have
\* contains_mismatched_words = true.
C16_AsStated ==
    \A f \in 1..Len(norm.textgrids) :
        \A chunk \in ChunkOfId(norm.mfa_chunks, norm.tg_files[f]) :
            LET tg == norm.textgrids[f]
                words == MfaInputWords(chunk.scribe_words)
                emitted == WordsEmittedFrom(chunk)
            IN  (tg.parse_ok /\ Len(SpokenIntervals(tg)) # Len(words)) =>
                    /\ Len(emitted) = Min2(Len(SpokenIntervals(tg)), Len(words))
                    /\ \A i \in 1..Len(emitted) :
                          emitted[i].chunk_info.contains_mismatched_words


(***************************************************************************)
(* Claims about MfaChunkValidatorService (C18 under SpecCollect, C19 under *)
(* SpecVal).                                                               *)
(***************************************************************************)
\* An empty or whitespace-only token.
IsBoundaryToken(token) == \A i \in 1..Len(token) : token[i] \in Whitespace

\* The positions where a maximal run of non-boundary tokens starts.
RunStarts(tokens) ==
    {i \in 1..Len(tokens) :
        /\ ~IsBoundaryToken(tokens[i])
        /\ (i = 1 \/ IsBoundaryToken(tokens[i - 1]))}

\* The position where the run starting at i ends.
RunEnd(tokens, i) ==
    CHOOSE j \in i..Len(tokens) :
        /\ \A m \in i..j : ~IsBoundaryToken(tokens[m])
        /\ (j = Len(tokens) \/ IsBoundaryToken(tokens[j + 1]))

\* The stripped tokens i..j written one after the other.
RECURSIVE RunText(_, _, _)
RunText(tokens, i, j) ==
    IF i > j THEN <<>> ELSE Strip(tokens[i]) \o RunText(tokens, i + 1, j)

\* C18: the result holds one word per maximal run of consecutive non-boundary
\* tokens, in order, each the concatenation of the run's stripped tokens;
\* no word is empty (so runs of boundary tokens give no word) and a run that
\* reaches the end of the stream is included.
C18_WordsAreMaximalRuns ==
    val.pc = "done" =>
        LET starts == AscendingList(RunStarts(val.char_tokens))
        IN  /\ Len(val.words) = Len(starts)
            /\ \A k \in 1..Len(starts) :
                  /\ val.words[k] = RunText(val.char_tokens, starts[k],
                                            RunEnd(val.char_tokens, starts[k]))
                  /\ val.words[k] # <<>>

\* Two words separated by two boundary tokens, the second made of two tokens
\* and still pending at the end of the stream.
C18_Witness ==
    /\ val.pc = "done"
    /\ val.char_tokens = <<<<"a">>, <<>>, <<" ">>, <<" ", "b">>, <<"c", "d">>>>
    /\ val.words = <<<<"a">>, <<"b", "c", "d">>>>

\* C19 as stated: after run, no word appears twice in the oov_words of a chunk.
C19_AsStated ==
    val.pc = "done" =>
        \A c \in 1..Len(val.chunks) :
            \A i \in 1..Len(val.chunks[c].oov_words) :
                \A j \in 1..Len(val.chunks[c].oov_words) :
                    val.chunks[c].oov_words[i] = val.chunks[c].oov_words[j] => i = j


(***************************************************************************)
(* Claim about the word-less spans of MfaChunkerService.run, checked under *)
(* SpecMfa.                                                                *)
(***************************************************************************)
\* A transcript token of type 'word' starts inside the span.
HoldsWord(sp) ==
    \E i \in 1..Len(mfa.words) :
        /\ mfa.words[i].type = "word"
        /\ sp.start_s <= mfa.words[i].start
        /\ mfa.words[i].start < sp.end_s

\* The first accepted span after span k (0 when there is none).
NextAccepted(k) ==
    IF \E j \in (k + 1)..Len(mfa.spans) : mfa.spans[j].accepted
    THEN CHOOSE j \in (k + 1)..Len(mfa.spans) :
            /\ mfa.spans[j].accepted
            /\ \A m \in (k + 1)..(j - 1) : ~mfa.spans[m].accepted
    ELSE 0

\* C20 as stated: the chunk emitted next after a discarded span starts where
\* the discarded span started.
C20_AsStated ==
    \A k \in 1..Len(mfa.spans) :
        (~mfa.spans[k].accepted /\ NextAccepted(k) # 0) =>
            mfa.spans[NextAccepted(k)].start_s = mfa.spans[k].start_s

\* C20 (amended): a candidate span is discarded exactly when no token of type
\* 'word' starts in it; the cursor then moves to the span's end, so the next
\* span starts where the discarded one ended and the discarded span overlaps
\* no emitted chunk.
C20_DiscardedSpanSkipped ==
    \A k \in 1..Len(mfa.spans) :
        /\ mfa.spans[k].accepted <=> HoldsWord(mfa.spans[k])
        /\ ~mfa.spans[k].accepted =>
              /\ k < Len(mfa.spans) => mfa.spans[k + 1].start_s = mfa.spans[k].end_s
              /\ k = Len(mfa.spans) => mfa.current_start_s = mfa.spans[k].end_s
              /\ NextAccepted(k) # 0 =>
                    mfa.spans[NextAccepted(k)].start_s >= mfa.spans[k].end_s
              /\ \A c \in 1..Len(mfa.mfa_chunks) :
                    \/ mfa.mfa_chunks[c].end_s <= mfa.spans[k].start_s
                    \/ mfa.mfa_chunks[c].start_s >= mfa.spans[k].end_s

\* A finished run in which a word-less span was discarded and a chunk was
\* emitted right after it.
C20_Witness ==
    /\ mfa.pc = "done"
    /\ \E k \in 1..(Len(mfa.spans) - 1) :
          /\ ~mfa.spans[k].accepted
          /\ mfa.spans[k + 1].accepted
          /\ mfa.mfa_chunks # <<>>
          /\ Last(mfa.mfa_chunks).start_s = mfa.spans[k].end_s


(***************************************************************************)
(* Termination of ScribeChunkerService.run, checked under SpecSegLive.     *)
(***************************************************************************)
\* C21: every iteration of the while loop strictly increases the cursor
\* index, the number of chunks never exceeds len(split_points) - 1, and run
\* returns, whatever the budget (also when it is below every gap, 0 or
\* negative).
C21_ChunkerTerminates ==
    /\ [][(seg.pc = "while" /\ seg'.pc = "while") =>
            seg'.current_chunk_start_index > seg.current_chunk_start_index]_vars
    /\ [](seg.pc \in {"while", "done"} /\ seg.split_points # <<>> =>
            /\ Len(seg.chunks) <= seg.current_chunk_start_index
            /\ seg.current_chunk_start_index <= Len(seg.split_points) - 1
            /\ Len(seg.chunks) <= Len(seg.split_points) - 1)
    /\ <>(seg.pc = "done")

\* A finished run with a negative budget: every step was forced, one chunk
\* per pair of neighbouring split points.
C21_Witness ==
    /\ seg.pc = "done"
    /\ seg.max_duration_ms < 0
    /\ Len(seg.split_points) >= 3
    /\ StrictlyIncreasing(seg.split_points)
    /\ Len(seg.chunks) = Len(seg.split_points) - 1


(***************************************************************************)
(* Claims about the walk of _parse_textgrid, checked under SpecNorm.       *)
(***************************************************************************)
\* The word-tier intervals left after discarding empty marks and sp/spn/sil.
RemainingIntervals(tg) ==
    SelectSeq(tg.word_tier,
              LAMBDA iv : ~(\/ iv.mark = <<>>
                            \/ Lower(iv.mark) \in {<<"s", "p">>, <<"s", "p", "n">>,
                                                   <<"s", "i", "l">>}))

\* The transcript words of a chunk that are sent to the aligner.
PairableWords(chunk) ==
    SelectSeq(chunk.scribe_words, LAMBDA w : w.type = "word" /\ w.text # Ellipsis)

\* r is x rounded to 4 decimals (a multiple of 10 units, nearest to x).
IsRounded4(r, x) == r % 10 = 0 /\ r - x <= 5 /\ x - r <= 5

\* C22: for a TextGrid that parses, the k-th remaining interval is paired
\* with the k-th pairable transcript word: min(#intervals, #words) words are
\* emitted, the k-th with the id and text of the k-th word, the mark of the
\* k-th interval, and that interval's times plus the chunk's start_s,
\* rounded to 4 decimals.
C22_PositionalPairing ==
    \A f \in 1..Len(norm.textgrids) :
        \A chunk \in ChunkOfId(norm.mfa_chunks, norm.tg_files[f]) :
            LET tg == norm.textgrids[f]
                intervals == RemainingIntervals(tg)
                words == PairableWords(chunk)
                emitted == WordsEmittedFrom(chunk)
            IN  tg.parse_ok =>
                    /\ Len(emitted) = Min2(Len(intervals), Len(words))
                    /\ \A k \in 1..Len(emitted) :
                          /\ emitted[k].id = words[k].id
                          /\ emitted[k].word = words[k].text
                          /\ emitted[k].mfa_word = intervals[k].mark
                          /\ IsRounded4(emitted[k].start, intervals[k].minTime + chunk.start_s)
                          /\ IsRounded4(emitted[k].end, intervals[k].maxTime + chunk.start_s)

\* Chunk 0 holds the placeholder and HELLO, its tier a pause and HELO: HELLO
\* (the second token) is paired with HELO (the second interval).
C22_Witness ==
    /\ norm.pc = "done"
    /\ Len(norm.textgrids) >= 1
    /\ norm.tg_files[1] = 0
    /\ norm.textgrids[1].parse_ok
    /\ [k \in 1..Len(norm.textgrids[1].word_tier) |-> norm.textgrids[1].word_tier[k].mark]
          = <<<<"S", "P">>, Helo>>
    /\ [k \in 1..Len(norm.mfa_chunks[1].scribe_words) |-> norm.mfa_chunks[1].scribe_words[k].text]
          = <<Ellipsis, Hello>>
    /\ Len(norm.all_words) >= 1
    /\ norm.all_words[1].id = 1
    /\ norm.all_words[1].mfa_word = Helo
    /\ norm.all_words[1].start = 25000

\* The normalized form of every text and mark of the model.
NormalizedOf ==
    [t \in {tok.text : tok \in TokenChoices} \cup MarkChoices |-> NormalizeTextForMfa(t)]

NormalizedTexts == {NormalizedOf[t] : t \in DOMAIN NormalizedOf}

\* The Levenshtein distance of every two of them, by the defining recurrence.
EditDistances == [a \in NormalizedTexts, b \in NormalizedTexts |-> Levenshtein(a, b)]

\* The (original_text, aligned_mark) pairs, from position k on, whose
\* normalized strings are more than 2 edits apart.
RECURSIVE FarPairs(_, _, _, _)
FarPairs(words, intervals, k, n) ==
    IF k > n THEN <<>>
    ELSE (IF EditDistances[NormalizedOf[words[k].text],
                           NormalizedOf[intervals[k].mark]] > 2
          THEN <<<<words[k].text, intervals[k].mark>>>>
          ELSE <<>>)
         \o FarPairs(words, intervals, k + 1, n)

\* C23: the diagnostics of a chunk list exactly the paired entries more than
\* 2 edits apart, in walk order; contains_mismatched_words is true exactly
\* when that list is non-empty; every paired entry is emitted, also after a
\* mismatch.
C23_MismatchedPairsExact ==
    \A f \in 1..Len(norm.textgrids) :
        \A chunk \in ChunkOfId(norm.mfa_chunks, norm.tg_files[f]) :
            LET tg == norm.textgrids[f]
                intervals == RemainingIntervals(tg)
                words == PairableWords(chunk)
                emitted == WordsEmittedFrom(chunk)
                n == Min2(Len(intervals), Len(words))
                expected == FarPairs(words, intervals, 1, n)
            IN  tg.parse_ok =>
                    /\ Len(emitted) = n
                    /\ \A k \in 1..Len(emitted) :
                          /\ emitted[k].chunk_info.mismatched_pairs = expected
                          /\ emitted[k].chunk_info.contains_mismatched_words
                                <=> expected # <<>>

\* Chunk 0 [HELLO, WORLD] against marks [WORLD, WORLD]: the first pair is a
\* mismatch, the walk goes on and both words are emitted.
C23_Witness ==
    /\ norm.pc = "done"
    /\ Len(norm.all_words) >= 2
    /\ norm.all_words[1].word = Hello /\ norm.all_words[1].mfa_word = World
    /\ norm.all_words[2].word = World /\ norm.all_words[2].mfa_word = World
    /\ norm.all_words[2].chunk_info.id = 0
    /\ norm.all_words[2].chunk_info.contains_mismatched_words
    /\ norm.all_words[2].chunk_info.mismatched_pairs = <<<<Hello, World>>>>


\* The word before the span and the word after it exist.
HasPrecedingWord == SpanFirstPos > 1

HasFollowingWord == SpanLastPos < Len(cut.all_words)

NoSignChange == ZcInRange /\ \A i \in 0..(Len(zc.signal) - 1) : ~IsCrossing(i)

ZcEdge == IF zc.direction = "forward" THEN Len(zc.signal) - 1 ELSE 0

ZcResultValid == zc.result \in 0..(Len(zc.signal) - 1)

ZcResultOutward ==
    ZcInRange => IF zc.direction = "forward" THEN zc.result >= zc.sample_index
                                             ELSE zc.result <= zc.sample_index

\* C25 as stated: for any non-empty signal and any start index the result is
\* an index of the signal; from an in-range start the result is never before
\* the start searching forward and never after it searching backward; and
\* whenever no sign change exists in the search direction the result is the
\* array edge (len - 1 forward, 0 backward).
C25_AsStated ==
    zc.pc = "done" =>
        /\ ZcResultValid
        /\ ZcResultOutward
        /\ NoSignChange => zc.result = ZcEdge

\* C25 (amended): the result is always an index of the signal and never lies
\* on the inner side of an in-range start; when no sign change exists in the
\* search direction the result is the array edge if the starting sample is
\* non-zero, and the start index itself if the starting sample is zero.
C25_ValidOutwardEdgeUnlessZeroStart ==
    zc.pc = "done" =>
        /\ ZcResultValid
        /\ ZcResultOutward
        /\ (NoSignChange /\ ZcStartSign # 0) => zc.result = ZcEdge
        /\ (NoSignChange /\ ZcStartSign = 0) => zc.result = zc.sample_index

\* A forward search over samples of one sign, started before the last sample,
\* has run to the edge.
C25_Witness ==
    /\ zc.pc = "done" /\ zc.direction = "forward"
    /\ NoSignChange /\ ZcStartSign # 0
    /\ zc.sample_index < Len(zc.signal) - 1
    /\ zc.result = Len(zc.signal) - 1

\* A start index outside the signal has been clamped.
C25_ClampedWitness ==
    /\ zc.pc = "done" /\ ~ZcInRange
    /\ zc.sample_index = Len(zc.signal) /\ zc.result = Len(zc.signal) - 1


(***************************************************************************)
(* Claims about the transcript words of the alignment chunks, checked      *)
(* under SpecMfa.                                                          *)
(***************************************************************************)
\* The transcript tokens of type 'word' that start inside the recording.
WordTokensInRecording ==
    {w \in Range(mfa.words) :
        w.type = "word" /\ 0 <= w.start /\ w.start < mfa.total_duration_s}

\* The positions of the returned chunks whose scribe_words hold token w.
ChunksHolding(w) ==
    {c \in 1..Len(mfa.mfa_chunks) : w \in Range(mfa.mfa_chunks[c].scribe_words)}

\* C26: when MfaChunkerService.run returns, every transcript token of type
\* 'word' that starts in [0, total_duration_s) is in the scribe_words of
\* exactly one returned chunk, the one with start_s <= word.start < end_s,
\* and every returned chunk holds at least one such token.
C26_WordsInExactlyOneChunk ==
    mfa.pc = "done" =>
        /\ \A w \in WordTokensInRecording :
              /\ Cardinality(ChunksHolding(w)) = 1
              /\ \A c \in ChunksHolding(w) :
                    /\ mfa.mfa_chunks[c].start_s <= w.start
                    /\ w.start < mfa.mfa_chunks[c].end_s
        /\ \A c \in 1..Len(mfa.mfa_chunks) :
              \E w \in WordTokensInRecording : c \in ChunksHolding(w)

\* Two chunks were returned and a word token starts exactly where the first
\* chunk ends and the second begins.
C26_Witness ==
    /\ mfa.pc = "done"
    /\ Len(mfa.mfa_chunks) = 2
    /\ \E w \in WordTokensInRecording :
          /\ w.start = mfa.mfa_chunks[1].end_s
          /\ w.start = mfa.mfa_chunks[2].start_s
          /\ ChunksHolding(w) = {2}


(***************************************************************************)
(* Claim about the agreement of contains_oov and oov_words, checked under  *)
(* SpecVal.                                                                *)
(***************************************************************************)
\* C27 as stated: after run, for every chunk contains_oov is true exactly
\* when oov_words is non-empty.
C27_AsStated ==
    val.pc = "done" =>
        \A c \in 1..Len(val.chunks) :
            val.chunks[c].contains_oov <=> (val.chunks[c].oov_words # <<>>)


(***************************************************************************)
(* Claim about the metadata rows updated by main's batch loop, checked     *)
(* under SpecMain.                                                         *)
(***************************************************************************)
\* The rows of the table whose converted_file_path is the recording processed
\* at position i of the loop.
RowsOfRecording(i) ==
    {k \in 1..Len(main.df) : main.df[k].converted_file_path = At(main.audio_files, i)}

RowHolds(k, path) ==
    /\ main.df[k].vad_path = path
    /\ main.df[k].scribe_path = path
    /\ main.df[k].mfa_path = path

\* C28 as stated: for every metadata table, once the run of a recording has
\* returned its three output paths are in the row whose converted_file_path
\* is that recording, and the row of a recording whose run raised keeps its
\* empty output cells.
C28_AsStated ==
    \A i \in 0..(Len(main.outcomes) - 1) :
        \A k \in RowsOfRecording(i) :
            IF At(main.outcomes, i) = "returned"
            THEN RowHolds(k, At(main.audio_files, i))
            ELSE RowHolds(k, NA)

\* The same statement restricted to tables in which every row has a
\* converted_file_path (row label and loop position then agree).
C28_HoldsWithoutMissingPaths ==
    (\A k \in 1..Len(main.df) : main.df[k].converted_file_path # NA) => C28_AsStated


=============================================================================
